---- MODULE Spec2Model ----
(***************************************************************************)
(* Verification model of splice (deepfates/splice):                        *)
(*   - the grouping engine, groupThreadsAndConversations                   *)
(*     (src/src/transforms/core.ts), under GroupSpec;                      *)
(*   - the decision folder, foldDecisions (src/src/core/decisions.ts),     *)
(*     under FoldSpec;                                                     *)
(*   - the content-addressed object store, FsStore put/get                 *)
(*     (src/src/core/decisions.ts), under StoreSpec;                       *)
(*   - the checkpoint ledger, FsStore checkpoints and the pipeline's       *)
(*     checkpoint step (src/src/index.ts), under LedgerSpec;               *)
(*   - stableStringify on object graphs (src/src/core/decisions.ts),       *)
(*     under GraphSpec;                                                    *)
(*   - the command line, parseArgs and main's writers (src/src/index.ts,   *)
(*     src/src/outputs/writers.ts), under CliSpec;                         *)
(*   - messagesFromConversation (src/src/transforms/core.ts), under        *)
(*     MsgSpec;                                                            *)
(*   - segmentedConversationsFromGlowficThread and                         *)
(*     fetchGlowficThreadsMany (the Glowfic source), under SegSpec and     *)
(*     ManySpec;                                                           *)
(*   - two putJSONL calls in flight at once, under ConcSpec.               *)
(***************************************************************************)
EXTENDS Integers, Sequences, FiniteSets, TLC

VARIABLES
    \* ---- groupThreadsAndConversations ----
    all,            \* the index: id -> ContentItem
    items,          \* Object.values(all): the iteration order (ids)
    idx,            \* position of the for-loop over items (1-based)
    processed,      \* Set<string> of ids already placed in a chain
    threads,        \* Thread[] built so far
    conversations,  \* ContentItem[][] built so far (before deduplication)
    chain,          \* the chain under construction, leaf first
    current,        \* the item the parent walk stands on
    result,         \* the returned { threads, conversations }
    pc,             \* position inside the function
    \* ---- foldDecisions ----
    opts,           \* FoldOptions, defaults applied
    stream,         \* the decision records read so far, in stream order
    out,            \* Map<string, LatestDecision>: id -> aggregate
    foldPc,         \* "fold" while reading the stream, "done" once returned
    \* ---- FsStore: objects ----
    objects,        \* files of <root>/objects: name -> content
    fsLog,          \* file-system mutations performed so far, in order
    clock,          \* Date.now(), in milliseconds
    storePc,        \* position inside the store call in flight
    call,           \* locals of the store call in flight
    calls,          \* completed store calls: arguments and outcome
    gen,            \* the AsyncGenerator object returned by getJSONL
    loops,          \* what each for-await loop over gen has received
    \* ---- FsStore: checkpoints ----
    checkpoints,    \* files of <root>/checkpoints: name -> content
    now,            \* new Date(), in milliseconds
    saved,          \* completed saveCheckpoint calls: argument, id, clock
    reads,          \* what the ledger read made since the last write returned
    runs,           \* completed pipeline runs: the manifest each saved
    \* ---- stableStringify on an object graph ----
    heap,           \* the value handed to putObject: reference -> object
    graphRet,       \* what putObject(heap root) returned or threw
    \* ---- main: the command-line pipeline run ----
    argv,           \* process.argv: the flags of the run
    env,            \* process.env.SPLICE_SYSTEM_MESSAGE
    cliOpts,        \* the CLIOptions parseArgs returned
    outDir,         \* the files and directories under --out
    workspaceDir,   \* the files and directories under the workspace
    cliPc,          \* main's position
    \* ---- messagesFromConversation ----
    convItems,      \* the items argument
    msgs,           \* the ChatMessages pushed so far
    currentRole,    \* role of the message being collected
    currentContent, \* cleaned texts of the message being collected
    msgIdx,         \* position of the for-loop over the items (1-based)
    msgRet,         \* the returned list
    msgPc,          \* position in messagesFromConversation
    \* ---- segmentedConversationsFromGlowficThread ----
    posts,          \* thread.posts: assistant match and content of each post
    userBuf,        \* contents of the user posts of the open segment
    asstBuf,        \* contents of the assistant posts of the open segment
    seenAnyUser,    \* a user post has opened the segment
    segConversations,\* the segments pushed so far (conversations)
    segIdx,         \* position of the for-loop over msgs (1-based)
    segPc,          \* position in segmentedConversationsFromGlowficThread
    \* ---- two putJSONL calls in flight ----
    procs,          \* locals and position of each putJSONL call in flight
    \* ---- fetchGlowficThreadsMany ----
    urls,           \* the urls argument
    concurrency,    \* options.concurrency, when given
    nextUrl,        \* i: the number of URLs taken so far
    workers,        \* index of the URL each worker fetches (0: worker over)
    attempted,      \* indexes fetchGlowficThreads was called for, in order
    fetched,        \* out: the threads pushed so far
    warned,         \* the URLs logged as failed
    manyPc          \* position in fetchGlowficThreadsMany

groupVars == <<all, items, idx, processed, threads, conversations, chain,
               current, result, pc>>

foldVars == <<opts, stream, out, foldPc>>

storeVars == <<objects, fsLog, clock, storePc, call, calls, gen, loops>>

ledgerVars == <<checkpoints, now, saved, reads, runs>>

graphVars == <<heap, graphRet>>

cliVars == <<argv, env, cliOpts, outDir, workspaceDir, cliPc>>

msgVars == <<convItems, msgs, currentRole, currentContent, msgIdx, msgRet,
            msgPc>>

segVars == <<posts, userBuf, asstBuf, seenAnyUser, segConversations, segIdx,
            segPc>>

concVars == <<procs>>

manyVars == <<urls, concurrency, nextUrl, workers, attempted, fetched,
             warned, manyPc>>

vars == <<groupVars, foldVars, storeVars, ledgerVars, graphVars, cliVars,
          msgVars, segVars, concVars, manyVars>>

\* what each component's operations leave alone
outsideGroup == <<foldVars, storeVars, ledgerVars, graphVars, cliVars,
                  msgVars, segVars, concVars, manyVars>>
outsideFold == <<groupVars, storeVars, ledgerVars, graphVars, cliVars,
                 msgVars, segVars, concVars, manyVars>>
outsideStore == <<groupVars, foldVars, ledgerVars, graphVars, cliVars,
                  msgVars, segVars, concVars, manyVars>>
outsideLedger == <<groupVars, foldVars, storeVars, graphVars, cliVars,
                   msgVars, segVars, concVars, manyVars>>
outsideGraph == <<groupVars, foldVars, ledgerVars, cliVars, msgVars, segVars,
                  concVars, manyVars>>
outsideCli == <<groupVars, foldVars, storeVars, ledgerVars, graphVars,
                msgVars, segVars, concVars, manyVars>>
outsideMsg == <<groupVars, foldVars, storeVars, ledgerVars, graphVars,
                cliVars, segVars, concVars, manyVars>>
outsideSeg == <<groupVars, foldVars, storeVars, ledgerVars, graphVars,
                cliVars, msgVars, concVars, manyVars>>
outsideConc == <<groupVars, foldVars, ledgerVars, graphVars, cliVars,
                 msgVars, segVars, manyVars>>
outsideMany == <<groupVars, foldVars, storeVars, ledgerVars, graphVars,
                 cliVars, msgVars, segVars, concVars>>

(***************************************************************************)
(* Values                                                                  *)
(***************************************************************************)

\* undefined / null / absent (every use in the code is a falsy test or ??)
None == "none"

\* the grouping and the fold as the other components leave them: not
\* called
GroupIdle ==
    /\ all = <<>>
    /\ items = <<>>
    /\ idx = 1
    /\ processed = {}
    /\ threads = <<>>
    /\ conversations = <<>>
    /\ chain = <<>>
    /\ current = None
    /\ result = None
    /\ pc = "idle"

FoldIdle ==
    /\ opts = [restrictStatuses |-> TRUE]
    /\ stream = <<>>
    /\ out = <<>>
    /\ foldPc = "idle"

\* the store and the ledger as the other components leave them: no
\* FsStore has been constructed, nothing is on disk
StoreIdle ==
    /\ objects = {}
    /\ fsLog = <<>>
    /\ clock = 0
    /\ storePc = "off"
    /\ call = None
    /\ calls = <<>>
    /\ gen = None
    /\ loops = <<>>

LedgerIdle ==
    /\ checkpoints = {}
    /\ now = 0
    /\ saved = <<>>
    /\ reads = <<>>
    /\ runs = <<>>

\* putObject has not been called on a graph
NotCalled == [outcome |-> None, ref |-> <<>>]

GraphIdle ==
    /\ heap = <<>>
    /\ graphRet = NotCalled

CliIdle ==
    /\ argv = None
    /\ env = None
    /\ cliOpts = None
    /\ outDir = {}
    /\ workspaceDir = {}
    /\ cliPc = "off"

MsgIdle ==
    /\ convItems = <<>>
    /\ msgs = <<>>
    /\ currentRole = None
    /\ currentContent = <<>>
    /\ msgIdx = 1
    /\ msgRet = <<>>
    /\ msgPc = "off"

SegIdle ==
    /\ posts = <<>>
    /\ userBuf = <<>>
    /\ asstBuf = <<>>
    /\ seenAnyUser = FALSE
    /\ segConversations = <<>>
    /\ segIdx = 1
    /\ segPc = "off"

ConcIdle ==
    /\ procs = <<>>

ManyIdle ==
    /\ urls = <<>>
    /\ concurrency = None
    /\ nextUrl = 0
    /\ workers = <<>>
    /\ attempted = <<>>
    /\ fetched = <<>>
    /\ warned = <<>>
    /\ manyPc = "off"

\* Longest chain the walk may build before the model stops extending it
\* (an acyclic index of three items never builds more than three).
MaxChain == 5

ItemIds == {"100", "101", "102"}

\* A parentId that resolves to no item of the index
DanglingId == "999"

Owner == "1111111111"
Other == "2222222222"

SELF_POST_SOURCES == {"twitter:tweet", "bluesky:post"}

\* (source, accountId, inReplyToUserId) as the source adapters emit them
ItemKinds ==
    { <<"twitter:tweet", Owner, None>>,
      <<"twitter:tweet", Owner, Owner>>,
      <<"twitter:tweet", Owner, Other>>,
      <<"twitter:tweet", None, Other>>,
      <<"bluesky:post", Owner, Owner>>,
      <<"twitter:like", None, None>>,
      <<"bluesky:fetched", Other, None>> }

ParentIds == {None, DanglingId} \cup ItemIds

ContentItem(id, parent, kind) ==
    [id |-> id, parentId |-> parent, source |-> kind[1],
     accountId |-> kind[2], inReplyToUserId |-> kind[3]]

\* indexById: every item is stored under its own id
Indexes ==
    { [k \in ItemIds |-> ContentItem(k, p[k], kd[k])] :
        p \in [ItemIds -> ParentIds], kd \in [ItemIds -> ItemKinds] }

\* Object.values(all): one enumeration of the keys
Orders ==
    { s \in [1..Cardinality(ItemIds) -> ItemIds] :
        \A i, j \in 1..Cardinality(ItemIds) : i # j => s[i] # s[j] }

Reverse(s) == [i \in 1..Len(s) |-> s[Len(s) + 1 - i]]

Truthy(v) == v # None

(***************************************************************************)
(* groupThreadsAndConversations                                            *)
(***************************************************************************)

\* a walk that also stops at a parent an earlier chain has used
WalkCondUnprocessed(ix, cur) ==
    /\ Truthy(ix[cur].parentId)
    /\ ix[cur].parentId \in DOMAIN ix
    /\ ix[cur].parentId \notin processed

\* while (current.parentId && all[current.parentId])
WalkCond(ix, cur) ==
    Truthy(ix[cur].parentId) /\ ix[cur].parentId \in DOMAIN ix

AllSelfPostsSome(ix, ch) ==
    \E i \in 1..Len(ch) : ix[ch[i]].source \in SELF_POST_SOURCES

\* chain.every((c) => SELF_POST_SOURCES.has(c.source))
AllSelfPosts(ix, ch) ==
    \A i \in 1..Len(ch) : ix[ch[i]].source \in SELF_POST_SOURCES

SelfReplyCheckOff(c) ==
    TRUE

\* the callback of isSelfThread's chain.every
SelfReplyCheck(c) ==
    IF ~Truthy(c.parentId) THEN TRUE
    ELSE IF Truthy(c.accountId) /\ Truthy(c.inReplyToUserId)
         THEN c.inReplyToUserId = c.accountId
         ELSE TRUE

IsSelfThread(ix, ch) ==
    \A i \in 1..Len(ch) : SelfReplyCheck(ix[ch[i]])

\* threads after the if/else that files the chain
ThreadsAfter(th, ix, ch) ==
    IF AllSelfPosts(ix, ch) /\ IsSelfThread(ix, ch)
    THEN Append(th, [id |-> Reverse(ch)[1], items |-> Reverse(ch)])
    ELSE th

ConversationsAfterAlways(cv, ix, ch) ==
    Append(cv, Reverse(ch))

\* conversations after the if/else that files the chain
ConversationsAfter(cv, ix, ch) ==
    IF AllSelfPosts(ix, ch) /\ IsSelfThread(ix, ch)
    THEN cv
    ELSE Append(cv, Reverse(ch))

\* position of rootId among the Map's keys (0 when absent)
MapPos(m, rootId) ==
    IF \E k \in 1..Len(m) : m[k][1] = rootId
    THEN CHOOSE k \in 1..Len(m) : m[k][1] = rootId
    ELSE 0

KeepLast(m, conv) ==
    LET pos == MapPos(m, conv[1]) IN
    IF pos = 0 THEN Append(m, conv)
    ELSE IF Len(conv) >= Len(m[pos]) THEN [m EXCEPT ![pos] = conv]
    ELSE m

\* one iteration of the deduplication loop: rootToLongest.set keeps the
\* key's first insertion position
KeepLongest(m, conv) ==
    LET pos == MapPos(m, conv[1]) IN
    IF pos = 0 THEN Append(m, conv)
    ELSE IF Len(conv) > Len(m[pos]) THEN [m EXCEPT ![pos] = conv]
    ELSE m

RECURSIVE DedupFrom(_, _, _)
DedupFrom(m, cv, k) ==
    IF k > Len(cv) THEN m
    ELSE IF Len(cv[k]) = 0 THEN DedupFrom(m, cv, k + 1)
    ELSE DedupFrom(KeepLongest(m, cv[k]), cv, k + 1)

\* Array.from(rootToLongest.values())
DeduplicatedConversations(cv) == DedupFrom(<<>>, cv, 1)

GroupInit ==
    /\ all \in Indexes
    /\ items \in Orders
    /\ idx = 1
    /\ processed = {}
    /\ threads = <<>>
    /\ conversations = <<>>
    /\ chain = <<>>
    /\ current = None
    /\ result = None
    /\ pc = "loop"
    /\ opts = [restrictStatuses |-> TRUE]
    /\ stream = <<>>
    /\ out = <<>>
    /\ foldPc = "idle"
    /\ StoreIdle
    /\ LedgerIdle
    /\ GraphIdle
    /\ CliIdle
    /\ MsgIdle
    /\ SegIdle
    /\ ConcIdle
    /\ ManyIdle

\* if (processed.has(item.id)) continue; if (source === fetched) continue;
SkipItem ==
    /\ pc = "loop"
    /\ idx <= Len(items)
    /\ \/ items[idx] \in processed
       \/ all[items[idx]].source = "bluesky:fetched"
    /\ idx' = idx + 1
    /\ UNCHANGED <<all, items, processed, threads, conversations, chain,
                   current, result, pc>>
    /\ UNCHANGED outsideGroup

\* a chain started from any unprocessed item, fetched ones included
StartChainFromAny ==
    /\ pc = "loop"
    /\ idx <= Len(items)
    /\ items[idx] \notin processed
    /\ chain' = <<items[idx]>>
    /\ current' = items[idx]
    /\ pc' = "walk"
    /\ UNCHANGED <<all, items, idx, processed, threads, conversations, result>>
    /\ UNCHANGED outsideGroup

\* const chain = [item]; let current = item;
StartChain ==
    /\ pc = "loop"
    /\ idx <= Len(items)
    /\ items[idx] \notin processed
    /\ all[items[idx]].source # "bluesky:fetched"
    /\ chain' = <<items[idx]>>
    /\ current' = items[idx]
    /\ pc' = "walk"
    /\ UNCHANGED <<all, items, idx, processed, threads, conversations, result>>
    /\ UNCHANGED outsideGroup

\* one iteration of the while loop: chain.push(parent); current = parent
WalkStep ==
    /\ pc = "walk"
    /\ WalkCond(all, current)
    /\ Len(chain) < MaxChain
    /\ chain' = Append(chain, all[current].parentId)
    /\ current' = all[current].parentId
    /\ UNCHANGED <<all, items, idx, processed, threads, conversations,
                   result, pc>>
    /\ UNCHANGED outsideGroup

\* the while loop exits: mark processed, classify, file the chain
EmitChain ==
    /\ pc = "walk"
    /\ ~WalkCond(all, current)
    /\ processed' = processed \cup {chain[i] : i \in 1..Len(chain)}
    /\ threads' = ThreadsAfter(threads, all, chain)
    /\ conversations' = ConversationsAfter(conversations, all, chain)
    /\ idx' = idx + 1
    /\ pc' = "loop"
    /\ UNCHANGED <<all, items, chain, current, result>>
    /\ UNCHANGED outsideGroup

\* the for loop is over: deduplicate and return
ReturnGroups ==
    /\ pc = "loop"
    /\ idx > Len(items)
    /\ result' = [threads |-> threads,
                  conversations |-> DeduplicatedConversations(conversations)]
    /\ pc' = "done"
    /\ UNCHANGED <<all, items, idx, processed, threads, conversations,
                   chain, current>>
    /\ UNCHANGED outsideGroup

GroupNext ==
    \/ SkipItem
    \/ StartChain
    \/ WalkStep
    \/ EmitChain
    \/ ReturnGroups

GroupSpec == GroupInit /\ [][GroupNext]_vars

(***************************************************************************)
(* Properties of groupThreadsAndConversations                              *)
(***************************************************************************)

NoRepeat(s) == \A i, j \in 1..Len(s) : i # j => s[i] # s[j]

SeqRange(s) == {s[i] : i \in 1..Len(s)}

\* both ids known and different: a reply to another user
ReplyToOther(c) ==
    /\ c.accountId # None
    /\ c.inReplyToUserId # None
    /\ c.inReplyToUserId # c.accountId

\* C1: the parent walk stops when it would revisit an id already in the
\* current chain, so the chain under construction never holds an id twice
\* and the walk of every finite index ends.
C1_WalkStopsAtRevisit == NoRepeat(chain)

\* the index of the integration test: 100 <- 101 (self-reply) <- 102 (reply
\* to another user)
ExampleIndex ==
    [k \in ItemIds |->
        CASE k = "100" -> ContentItem("100", None, <<"twitter:tweet", Owner, None>>)
          [] k = "101" -> ContentItem("101", "100", <<"twitter:tweet", Owner, Owner>>)
          [] k = "102" -> ContentItem("102", "101", <<"twitter:tweet", Owner, Other>>)]

\* C2: for the example index the result is, in every iteration order,
\* exactly one Thread [100, 101] and exactly one Conversation
\* [100, 101, 102].
C2_ExampleOneThreadOneConversation ==
    (pc = "done" /\ all = ExampleIndex) =>
        /\ Len(result.threads) = 1
        /\ result.threads[1].items = <<"100", "101">>
        /\ Len(result.conversations) = 1
        /\ result.conversations[1] = <<"100", "101", "102">>

\* the rule as claimed: all sources self-authored and every item after the
\* root a self-reply (its = oldest first)
ClaimedThreadRule(its) ==
    /\ \A i \in 1..Len(its) : all[its[i]].source \in SELF_POST_SOURCES
    /\ \A i \in 2..Len(its) : ~ReplyToOther(all[its[i]])

\* the rule with the root included whenever it carries a parentId
AmendedThreadRule(its) ==
    /\ \A i \in 1..Len(its) : all[its[i]].source \in SELF_POST_SOURCES
    /\ \A i \in 1..Len(its) :
          all[its[i]].parentId # None => ~ReplyToOther(all[its[i]])

\* C3 (as claimed): a chain is a Thread iff all its sources are
\* self-authored and every non-root item is a self-reply; the root's fields
\* other than its source never matter; every other chain is a Conversation.
C3_ThreadIffNonRootSelfReplies ==
    /\ \A t \in 1..Len(threads) : ClaimedThreadRule(threads[t].items)
    /\ \A c \in 1..Len(conversations) : ~ClaimedThreadRule(conversations[c])

\* C3 (amended): a chain is a Thread iff all its sources are self-authored
\* and every item that has a parentId -- every non-root item, and the root
\* too when its parentId does not resolve in the index -- is a self-reply;
\* every other chain is a Conversation.
C3_ThreadIffParentedSelfReplies ==
    /\ \A t \in 1..Len(threads) : AmendedThreadRule(threads[t].items)
    /\ \A c \in 1..Len(conversations) : ~AmendedThreadRule(conversations[c])

\* a Thread of two items was emitted, and so was a one-item Conversation
\* whose only item is a self-authored reply to another user with an
\* unresolved parent
C3_Witness ==
    /\ pc = "done"
    /\ \E t \in 1..Len(threads) : Len(threads[t].items) >= 2
    /\ \E c \in 1..Len(conversations) :
          /\ Len(conversations[c]) = 1
          /\ all[conversations[c][1]].source \in SELF_POST_SOURCES
          /\ all[conversations[c][1]].parentId = DanglingId
          /\ ReplyToOther(all[conversations[c][1]])

\* C4: every returned Thread holds only self-authored sources and no
\* non-root item that replies to another user.
C4_ThreadsOnlySelfReplies ==
    pc = "done" =>
        \A t \in 1..Len(result.threads) :
            LET its == result.threads[t].items IN
            /\ \A i \in 1..Len(its) : all[its[i]].source \in SELF_POST_SOURCES
            /\ \A i \in 2..Len(its) : ~ReplyToOther(all[its[i]])

\* a multi-item Thread was returned from an index that also holds a reply
\* to another user hanging off that Thread
C4_Witness ==
    /\ pc = "done"
    /\ \E t \in 1..Len(result.threads) :
          /\ Len(result.threads[t].items) >= 2
          /\ \E k \in ItemIds :
                /\ ReplyToOther(all[k])
                /\ all[k].source \in SELF_POST_SOURCES
                /\ all[k].parentId \in SeqRange(result.threads[t].items)

\* the first longest Conversation chain built with root r
FirstLongest(r) ==
    CHOOSE k \in 1..Len(conversations) :
        /\ conversations[k][1] = r
        /\ \A j \in 1..Len(conversations) :
              conversations[j][1] = r =>
                 /\ Len(conversations[j]) <= Len(conversations[k])
                 /\ j < k => Len(conversations[j]) < Len(conversations[k])

C6_NoPairInThreadAndConversation ==
    pc = "done" =>
        ~ \E t \in 1..Len(result.threads), c \in 1..Len(result.conversations) :
            /\ result.threads[t].id = result.conversations[c][1]
            /\ \E a, b \in ItemIds :
                  /\ a # b
                  /\ {a, b} \subseteq SeqRange(result.threads[t].items)
                  /\ {a, b} \subseteq SeqRange(result.conversations[c])

\* C6 (amended): no chain is returned both as a Thread and as a
\* Conversation: a returned Thread and a returned Conversation never have
\* the same item sequence (they may share a root and a prefix).
C6_NoChainInThreadAndConversation ==
    pc = "done" =>
        \A t \in 1..Len(result.threads), c \in 1..Len(result.conversations) :
            result.threads[t].items # result.conversations[c]

\* a Thread and a Conversation with the same root were returned, the
\* Conversation extending the Thread's chain
C6_Witness ==
    /\ pc = "done"
    /\ \E t \in 1..Len(result.threads), c \in 1..Len(result.conversations) :
          /\ result.threads[t].id = result.conversations[c][1]
          /\ Len(result.threads[t].items) >= 2
          /\ Len(result.conversations[c]) > Len(result.threads[t].items)
          /\ SubSeq(result.conversations[c], 1, Len(result.threads[t].items))
                = result.threads[t].items

(***************************************************************************)
(* foldDecisions                                                           *)
(***************************************************************************)

\* Records a stream may read before it ends
MaxStream == 2

DEFAULT_DECISION_STATUSES == {"unread", "export", "skip"}

\* meta: absent, or an object given as its set of <<key, value>> entries
NoMeta == [present |-> FALSE, kv |-> {}]

Meta(entries) == [present |-> TRUE, kv |-> entries]

\* (status, notes, by, meta) of the records of the streams
ScalarProfiles ==
    { <<None, None, None, NoMeta>>,
      <<"skip", None, None, NoMeta>>,
      <<"export", None, None, NoMeta>>,
      <<"export", "second note", "ui", Meta({<<"k", "2">>, <<"j", "2">>})>>,
      <<"archived", "first note", "alice", Meta({<<"k", "1">>})>> }

\* ts: missing, unparseable, and three parseable strings, two of them the
\* same instant
Timestamps ==
    {None, "not-a-date", "2025-01-01", "2025-01-01T00:00:00.000Z", "2025-01-02"}

\* tags: a missing tags field reads as [] everywhere (rec.tags || [])
TagLists == {<<>>, <<"a">>, <<"b">>}

DecisionRecord(id, prof, ts, tags) ==
    [id |-> id, status |-> prof[1], tags |-> tags, notes |-> prof[2],
     ts |-> ts, by |-> prof[3], meta |-> prof[4]]

\* every shape for id "x" untagged and tagged a, the tag b on one of them;
\* a second id with fewer shapes; a record with an empty id
DecisionRecords ==
    { DecisionRecord("x", prof, ts, tags) :
        prof \in ScalarProfiles, ts \in Timestamps,
        tags \in TagLists \ {<<"b">>} }
    \cup { DecisionRecord("x", <<"skip", None, None, NoMeta>>, ts, <<"b">>) :
        ts \in Timestamps }
    \cup { DecisionRecord("y", prof, ts, tags) :
        prof \in { <<"skip", None, None, NoMeta>>,
                   <<"archived", "first note", "alice", Meta({<<"k", "1">>})>> },
        ts \in {None, "2025-01-01"}, tags \in {<<>>, <<"b">>} }
    \cup { DecisionRecord("", <<"skip", None, None, NoMeta>>, "2025-01-02", <<"a">>) }

\* Date.parse, in days since the epoch; 0 stands for NaN
DateParse(ts) ==
    CASE ts = "2025-01-01" -> 20089
      [] ts = "2025-01-01T00:00:00.000Z" -> 20089
      [] ts = "2025-01-02" -> 20090
      [] OTHER -> 0

isValidIso(ts) ==
    IF ts = None \/ ts = "" THEN FALSE ELSE DateParse(ts) # 0

compareDecisionRecencyInvalidNewer(a, b) ==
    IF isValidIso(a.ts) /\ isValidIso(b.ts)
    THEN DateParse(a.ts) - DateParse(b.ts)
    ELSE IF isValidIso(a.ts) /\ ~isValidIso(b.ts) THEN 1
    ELSE IF ~isValidIso(a.ts) /\ isValidIso(b.ts) THEN 1
    ELSE 0

compareDecisionRecency(a, b) ==
    IF isValidIso(a.ts) /\ isValidIso(b.ts)
    THEN DateParse(a.ts) - DateParse(b.ts)
    ELSE IF isValidIso(a.ts) /\ ~isValidIso(b.ts) THEN 1
    ELSE IF ~isValidIso(a.ts) /\ isValidIso(b.ts) THEN 0 - 1
    ELSE 0

\* a ?? b
Coalesce(a, b) == IF a # None THEN a ELSE b

RECURSIVE DedupeFrom(_, _, _)
DedupeFrom(acc, s, k) ==
    IF k > Len(s) THEN acc
    ELSE IF \E i \in 1..Len(acc) : acc[i] = s[k]
         THEN DedupeFrom(acc, s, k + 1)
         ELSE DedupeFrom(Append(acc, s[k]), s, k + 1)

\* Array.from(new Set([...a, ...b])): first occurrences, in order
UnionTags(a, b) == DedupeFrom(<<>>, a \o b, 1)

\* { ...(a || {}), ...(b || {}) }
SpreadMeta(a, b) ==
    Meta(b.kv \cup {e \in a.kv : ~\E f \in b.kv : f[1] = e[1]})

mergeDecisionOlderFirst(a, b) ==
    [id |-> a.id,
     status |-> Coalesce(a.status, b.status),
     tags |-> UnionTags(a.tags, b.tags),
     notes |-> Coalesce(b.notes, a.notes),
     ts |-> Coalesce(b.ts, a.ts),
     by |-> Coalesce(b.by, a.by),
     meta |-> SpreadMeta(a.meta, b.meta)]

mergeDecision(a, b) ==
    [id |-> a.id,
     status |-> Coalesce(b.status, a.status),
     tags |-> UnionTags(a.tags, b.tags),
     notes |-> Coalesce(b.notes, a.notes),
     ts |-> Coalesce(b.ts, a.ts),
     by |-> Coalesce(b.by, a.by),
     meta |-> SpreadMeta(a.meta, b.meta)]

baseFromDecision(rec) ==
    [id |-> rec.id,
     status |-> rec.status,
     tags |-> UnionTags(rec.tags, <<>>),
     notes |-> rec.notes,
     ts |-> rec.ts,
     by |-> rec.by,
     meta |-> rec.meta]

normalizeStatus(status, o) ==
    IF status = None \/ status = "" THEN None
    ELSE IF ~o.restrictStatuses THEN status
    ELSE IF status \in DEFAULT_DECISION_STATUSES THEN status
    ELSE None

\* the record as foldDecisions merges it: { ...rec, status: normStatus }
Normalized(rec, o) == [rec EXCEPT !.status = normalizeStatus(rec.status, o)]

KeepNewerDropTags(existing, normalized) ==
    existing

\* the older-record branch: { ...existing, tags: mergedTags }
KeepNewer(existing, normalized) ==
    [existing EXCEPT !.tags = UnionTags(existing.tags, normalized.tags)]

\* one iteration of the for-await loop of foldDecisions
FoldStep(m, rec, o) ==
    IF rec.id = "" THEN m
    ELSE LET normalized == Normalized(rec, o)
             next == IF rec.id \notin DOMAIN m
                       THEN baseFromDecision(normalized)
                     ELSE IF compareDecisionRecency(normalized, m[rec.id]) >= 0
                       THEN mergeDecision(m[rec.id], normalized)
                     ELSE KeepNewer(m[rec.id], normalized)
         IN [k \in DOMAIN m \cup {rec.id} |-> IF k = rec.id THEN next ELSE m[k]]

RECURSIVE FoldFrom(_, _, _, _)
FoldFrom(m, s, k, o) ==
    IF k > Len(s) THEN m ELSE FoldFrom(FoldStep(m, s[k], o), s, k + 1, o)

\* foldDecisions(decisions, opts) of a whole stream
foldDecisions(s, o) == FoldFrom(<<>>, s, 1, o)

FoldInit ==
    /\ opts \in [restrictStatuses : BOOLEAN]
    /\ stream = <<>>
    /\ out = <<>>
    /\ foldPc = "fold"
    /\ all = <<>>
    /\ items = <<>>
    /\ idx = 1
    /\ processed = {}
    /\ threads = <<>>
    /\ conversations = <<>>
    /\ chain = <<>>
    /\ current = None
    /\ result = None
    /\ pc = "idle"
    /\ StoreIdle
    /\ LedgerIdle
    /\ GraphIdle
    /\ CliIdle
    /\ MsgIdle
    /\ SegIdle
    /\ ConcIdle
    /\ ManyIdle

\* the loop reads the next record of the stream
FoldRecord ==
    /\ foldPc = "fold"
    /\ Len(stream) < MaxStream
    /\ \E rec \in DecisionRecords :
          /\ stream' = Append(stream, rec)
          /\ out' = FoldStep(out, rec, opts)
    /\ UNCHANGED <<opts, foldPc>>
    /\ UNCHANGED outsideFold

\* the stream ends: return out
FoldReturn ==
    /\ foldPc = "fold"
    /\ foldPc' = "done"
    /\ UNCHANGED <<opts, stream, out>>
    /\ UNCHANGED outsideFold

FoldNext ==
    \/ FoldRecord
    \/ FoldReturn

FoldSpec == FoldInit /\ [][FoldNext]_vars

(***************************************************************************)
(* Properties of foldDecisions                                             *)
(***************************************************************************)

Perms(n) == { p \in [1..n -> 1..n] : \A i, j \in 1..n : i # j => p[i] # p[j] }

Permuted(s, p) == [i \in 1..Len(s) |-> s[p[i]]]

\* the records of s having the id
TagsOfId(s, id) ==
    UNION { SeqRange(s[i].tags) : i \in {j \in 1..Len(s) : s[j].id = id} }

\* all records sharing an id carry valid timestamps of different instants
DistinctValidPerId(s) ==
    \A i, j \in 1..Len(s) :
        (i # j /\ s[i].id = s[j].id) =>
            /\ isValidIso(s[i].ts)
            /\ isValidIso(s[j].ts)
            /\ DateParse(s[i].ts) # DateParse(s[j].ts)

\* same status, notes, by, ts, meta entries and tag set
SameDecision(a, b) ==
    /\ a.status = b.status
    /\ a.notes = b.notes
    /\ a.by = b.by
    /\ a.ts = b.ts
    /\ a.meta.kv = b.meta.kv
    /\ SeqRange(a.tags) = SeqRange(b.tags)

SameFold(m, n) ==
    /\ DOMAIN m = DOMAIN n
    /\ \A id \in DOMAIN m : SameDecision(m[id], n[id])

\* C7: when all records sharing an id carry valid, pairwise different
\* timestamps, every permutation of the stream folds to the same map.
C7_FoldOrderIndependent ==
    DistinctValidPerId(stream) =>
        \A p \in Perms(Len(stream)) :
            SameFold(foldDecisions(Permuted(stream, p), opts), out)

\* C8: the tag set of every id of the result is the union of the tags of
\* all records of the stream having that id (after every record read), and
\* every permutation of the stream returns the same tag sets.
C8_TagsAreUnion ==
    /\ \A id \in DOMAIN out :
          SeqRange(out[id].tags) = TagsOfId(stream, id)
    /\ foldPc = "done" =>
          \A p \in Perms(Len(stream)) :
              LET other == foldDecisions(Permuted(stream, p), opts) IN
              /\ DOMAIN other = DOMAIN out
              /\ \A id \in DOMAIN out :
                    SeqRange(other[id].tags) = SeqRange(out[id].tags)

\* the second record of an id lost recency and still added its tag
C8_Witness ==
    /\ foldPc = "done"
    /\ Len(stream) = 2
    /\ stream[1].id = "x" /\ stream[2].id = "x"
    /\ stream[1].ts = "2025-01-02" /\ stream[2].ts = "2025-01-01"
    /\ stream[1].tags = <<"a">> /\ stream[2].tags = <<"b">>
    /\ out["x"].tags = <<"a", "b">>

\* the record the step just read
Incoming == stream'[Len(stream')]

\* the loop read a record for an id that already has an aggregate
ReadForExisting ==
    /\ Len(stream') = Len(stream) + 1
    /\ Incoming.id \in DOMAIN out

\* ... whose timestamp is valid and later than the aggregate's valid one
ReadLater ==
    /\ ReadForExisting
    /\ isValidIso(Incoming.ts)
    /\ isValidIso(out[Incoming.id].ts)
    /\ DateParse(Incoming.ts) > DateParse(out[Incoming.id].ts)

\* ... whose timestamp is missing or invalid while the aggregate's is valid
ReadInvalidAgainstValid ==
    /\ ReadForExisting
    /\ ~isValidIso(Incoming.ts)
    /\ isValidIso(out[Incoming.id].ts)

\* ... of equal recency: the same instant, or neither timestamp valid
ReadTie ==
    /\ ReadForExisting
    /\ \/ /\ isValidIso(Incoming.ts)
          /\ isValidIso(out[Incoming.id].ts)
          /\ DateParse(Incoming.ts) = DateParse(out[Incoming.id].ts)
       \/ /\ ~isValidIso(Incoming.ts)
          /\ ~isValidIso(out[Incoming.id].ts)

\* the status the incoming record carries once normalised
IncomingStatus ==
    IF Incoming.status \in DEFAULT_DECISION_STATUSES \/ ~opts.restrictStatuses
    THEN Incoming.status
    ELSE None

\* C9 (as claimed): a record with a valid, later timestamp overwrites all of
\* status, notes, by, meta and ts of the aggregate with its own values:
\* nothing of the older status, notes, by or meta survives.
C9_LaterOverwritesAllScalars ==
    [][ReadLater =>
          LET agg == out'[Incoming.id] IN
          /\ agg.status = IncomingStatus
          /\ agg.notes = Incoming.notes
          /\ agg.by = Incoming.by
          /\ agg.meta.kv = Incoming.meta.kv
          /\ agg.ts = Incoming.ts]_vars

\* the spec's example stream for id "x"
ExampleStream ==
    << DecisionRecord("x", <<"skip", None, None, NoMeta>>, "2025-01-01", <<>>),
       DecisionRecord("x", <<"export", None, None, NoMeta>>, "2025-01-02", <<"a">>) >>

\* C9 (amended): a record with a valid, later timestamp overwrites ts, and
\* overwrites each of status (after normalisation), notes and by that it
\* carries; a field it omits keeps the aggregate's value; meta becomes the
\* aggregate's entries overridden key by key by the record's. The example
\* stream folds to status export with tags {a}.
C9_LaterOverwritesCarriedScalars ==
    /\ [][ReadLater =>
            LET agg == out'[Incoming.id]
                old == out[Incoming.id]
            IN /\ agg.ts = Incoming.ts
               /\ agg.status = IF IncomingStatus # None THEN IncomingStatus
                               ELSE old.status
               /\ agg.notes = IF Incoming.notes # None THEN Incoming.notes
                              ELSE old.notes
               /\ agg.by = IF Incoming.by # None THEN Incoming.by ELSE old.by
               /\ Incoming.meta.kv \subseteq agg.meta.kv
               /\ \A e \in old.meta.kv :
                     (\A f \in Incoming.meta.kv : f[1] # e[1]) => e \in agg.meta.kv
               /\ agg.meta.kv \subseteq Incoming.meta.kv \cup old.meta.kv]_vars
    /\ [](stream = ExampleStream =>
            /\ out["x"].status = "export"
            /\ SeqRange(out["x"].tags) = {"a"})

\* the example stream was folded: skip, then a later export
C9_Witness ==
    /\ foldPc = "done"
    /\ stream = ExampleStream
    /\ out["x"].status = "export"
    /\ out["x"].ts = "2025-01-02"

Str(s) == [t |-> "str", v |-> s, kv |-> <<>>]
Lit(s) == [t |-> "lit", v |-> s, kv |-> <<>>]
Undefined == [t |-> "undef", v |-> "", kv |-> <<>>]
Null == Lit("null")
Obj(pairs) == [t |-> "obj", v |-> "", kv |-> pairs]
Arr(el) == [t |-> "arr", v |-> "",
            kv |-> [i \in 1..Len(el) |-> <<ToString(i - 1), el[i]>>]]

P(s) == [k |-> "p", s |-> s]
StrTok(s) == [k |-> "str", s |-> s]
LitTok(s) == [k |-> "lit", s |-> s]
\* the line terminator putJSONL appends
NL == P("\n")

\* the words JSON.parse accepts outside quotes (the numbers used here)
JsonLiterals == {"null", "true", "false", "0", "1", "2", "3"}

\* every object key of the model in the order of Array.prototype.sort()
\* (UTF-16 code units)
SortedKeys == <<"a", "b", "config", "createdAt", "decisionsRef", "id",
                "inputs", "itemsRef", "materialized", "name", "notes", "o",
                "parentId", "schemaVersion", "since", "sourceRefs",
                "threadsRef", "transforms">>

KeysOf(v) == {v.kv[i][1] : i \in 1..Len(v.kv)}
HasKey(v, key) == key \in KeysOf(v)
\* v[key]: undefined when the key is missing
Get(v, key) ==
    IF HasKey(v, key)
    THEN v.kv[CHOOSE i \in 1..Len(v.kv) : v.kv[i][1] = key][2]
    ELSE Undefined

\* Object.keys(v).sort()
SortedKeysOf(v) == SelectSeq(SortedKeys, LAMBDA key : key \in KeysOf(v))
\* Object.keys(v): insertion order
InsertionKeysOf(v) == [i \in 1..Len(v.kv) |-> v.kv[i][1]]

\* parts.join(","), parts being token sequences
RECURSIVE JoinComma(_)
JoinComma(parts) ==
    IF parts = <<>> THEN <<>>
    ELSE IF Len(parts) = 1 THEN parts[1]
    ELSE parts[1] \o <<P(",")>> \o JoinComma(Tail(parts))

\* stableStringify, keeping keys in insertion order: plain JSON.stringify
\* without its treatment of undefined
RECURSIVE unsortedStringify(_)
RECURSIVE stableStringify(_)
unsortedStringify(v) ==
    IF v.t = "str" THEN <<StrTok(v.v)>>
    ELSE IF v.t = "lit" THEN <<LitTok(v.v)>>
    ELSE IF v.t = "undef" THEN <<LitTok("undefined")>>
    ELSE IF v.t = "arr"
    THEN <<P("[")>>
         \o JoinComma([i \in 1..Len(v.kv) |->
                IF v.kv[i][2].t = "undef" THEN <<>>
                ELSE unsortedStringify(v.kv[i][2])])
         \o <<P("]")>>
    ELSE LET keys == InsertionKeysOf(v)
         IN <<P("{")>>
            \o JoinComma([i \in 1..Len(keys) |->
                   <<StrTok(keys[i]), P(":")>>
                   \o unsortedStringify(Get(v, keys[i]))])
            \o <<P("}")>>

\* stableStringify(value): JSON.stringify(undefined) is undefined, which
\* the string concatenation of the enclosing object turns into the word
\* undefined and the join(",") of the enclosing array into nothing
stableStringify(v) ==
    IF v.t = "str" THEN <<StrTok(v.v)>>
    ELSE IF v.t = "lit" THEN <<LitTok(v.v)>>
    ELSE IF v.t = "undef" THEN <<LitTok("undefined")>>
    ELSE IF v.t = "arr"
    THEN <<P("[")>>
         \o JoinComma([i \in 1..Len(v.kv) |->
                IF v.kv[i][2].t = "undef" THEN <<>>
                ELSE stableStringify(v.kv[i][2])])
         \o <<P("]")>>
    ELSE LET keys == SortedKeysOf(v)
         IN <<P("{")>>
            \o JoinComma([i \in 1..Len(keys) |->
                   <<StrTok(keys[i]), P(":")>>
                   \o stableStringify(Get(v, keys[i]))])
            \o <<P("}")>>

\* JSON.stringify(value): keys in insertion order, a key whose value is
\* undefined is left out, undefined in an array becomes null, undefined
\* itself gives undefined (the word, once "\n" is appended to it)
RECURSIVE JSONstringify(_)
JSONstringify(v) ==
    IF v.t = "str" THEN <<StrTok(v.v)>>
    ELSE IF v.t = "lit" THEN <<LitTok(v.v)>>
    ELSE IF v.t = "undef" THEN <<LitTok("undefined")>>
    ELSE IF v.t = "arr"
    THEN <<P("[")>>
         \o JoinComma([i \in 1..Len(v.kv) |->
                IF v.kv[i][2].t = "undef" THEN <<LitTok("null")>>
                ELSE JSONstringify(v.kv[i][2])])
         \o <<P("]")>>
    ELSE LET keys == SelectSeq(InsertionKeysOf(v),
                               LAMBDA key : Get(v, key).t # "undef")
         IN <<P("{")>>
            \o JoinComma([i \in 1..Len(keys) |->
                   <<StrTok(keys[i]), P(":")>>
                   \o JSONstringify(Get(v, keys[i]))])
            \o <<P("}")>>

\* a failed JSON.parse (SyntaxError)
ParseFail == [ok |-> FALSE, v |-> Undefined, i |-> 0]

\* JSON.parse by recursive descent: the value starting at token i, and
\* the position after it
RECURSIVE ParseValue(_, _)
RECURSIVE ParseMembers(_, _, _, _)
ParseValue(toks, i) ==
    IF i > Len(toks) THEN ParseFail
    ELSE LET tk == toks[i]
         IN IF tk.k = "str" THEN [ok |-> TRUE, v |-> Str(tk.s), i |-> i + 1]
            ELSE IF tk.k = "lit"
            THEN IF tk.s \in JsonLiterals
                 THEN [ok |-> TRUE, v |-> Lit(tk.s), i |-> i + 1]
                 ELSE ParseFail
            ELSE IF tk.s = "{"
            THEN IF i < Len(toks) /\ toks[i + 1] = P("}")
                 THEN [ok |-> TRUE, v |-> Obj(<<>>), i |-> i + 2]
                 ELSE ParseMembers(toks, i + 1, <<>>, TRUE)
            ELSE IF tk.s = "["
            THEN IF i < Len(toks) /\ toks[i + 1] = P("]")
                 THEN [ok |-> TRUE, v |-> Arr(<<>>), i |-> i + 2]
                 ELSE ParseMembers(toks, i + 1, <<>>, FALSE)
            ELSE ParseFail

ParseMembers(toks, i, acc, isObj) ==
    LET keyOk == \/ ~isObj
                 \/ /\ i + 1 <= Len(toks)
                    /\ toks[i].k = "str"
                    /\ toks[i + 1] = P(":")
    IN IF ~keyOk THEN ParseFail
       ELSE LET key == IF isObj THEN toks[i].s ELSE ToString(Len(acc))
                r == ParseValue(toks, IF isObj THEN i + 2 ELSE i)
            IN IF ~r.ok \/ r.i > Len(toks) THEN ParseFail
               ELSE LET acc2 == Append(acc, <<key, r.v>>)
                    IN IF toks[r.i] = P(",")
                       THEN ParseMembers(toks, r.i + 1, acc2, isObj)
                       ELSE IF toks[r.i] = P(IF isObj THEN "}" ELSE "]")
                       THEN [ok |-> TRUE,
                             v |-> [t |-> IF isObj THEN "obj" ELSE "arr",
                                    v |-> "", kv |-> acc2],
                             i |-> r.i + 1]
                       ELSE ParseFail

\* JSON.parse(text): the whole text must be one value
JSONparse(toks) ==
    LET r == ParseValue(toks, 1)
    IN IF r.ok /\ r.i = Len(toks) + 1 THEN r ELSE ParseFail

\* the characters of a JSON text, as one string
RECURSIVE TextOf(_)
TextOf(toks) ==
    IF toks = <<>> THEN ""
    ELSE (IF toks[1].k = "str" THEN "\"" \o toks[1].s \o "\"" ELSE toks[1].s)
         \o TextOf(Tail(toks))

\* createHash("sha256").update(s).digest("hex"): SHA-256 is taken as
\* collision-free, so a digest is written as the text it was computed from
hashString(toks) == "sha256<" \o TextOf(toks) \o ">"

\* hashString(basis).slice(0, 8)
ShortHash(toks) == "sha8<" \o TextOf(toks) \o ">"

(***************************************************************************)
(* FsStore: the object store                                               *)
(***************************************************************************)

\* store calls made in one behaviour
MaxCalls == 3
\* reads (getObject, getJSONL, parseJsonlFile) among those calls
MaxGets == 1
\* for-await loops run over one getJSONL result
MaxLoops == 2
\* Date.now() readings 0..MaxClock
MaxClock == 1

\* values handed to putObject and putJSONL
ValA1 == Obj(<< <<"a", Lit("1")>>, <<"b", Str("x")>> >>)
ValA2 == Obj(<< <<"b", Str("x")>>, <<"a", Lit("1")>> >>)
ValN1 == Obj(<< <<"o", ValA1>> >>)
ValN2 == Obj(<< <<"o", ValA2>> >>)
ValU == Obj(<< <<"a", Undefined>> >>)
ValR1 == Arr(<<Lit("1"), Str("x")>>)

PutValues == {ValN1, ValN2, ValU, ValR1}

ItemLists == {<<>>, <<ValA1, ValR1>>, <<ValA1, Undefined, ValR1>>}

\* Math.random().toString(16).slice(2)
Randoms == {"r1"}

\* a file of a directory, and the directory after fs operations
File(name, data) == [name |-> name, data |-> data]
Names(dir) == {f.name : f \in dir}
\* fsp.stat(p) finds nothing, whatever the directory holds
StatMisses(dir, name) == FALSE
\* fsp.stat(p) succeeds
Stat(dir, name) == name \in Names(dir)
ReadFile(dir, name) == (CHOOSE f \in dir : f.name = name).data
WriteFile(dir, name, data) ==
    {f \in dir : f.name # name} \cup {File(name, data)}
\* fsp.rm leaving the file where it is
RemoveNothing(dir, name) == dir
Remove(dir, name) == {f \in dir : f.name # name}
\* a rename that copies: the file stays under its old name too
RenameLeavesSource(dir, from, to) ==
    {f \in dir : f.name # to} \cup {File(to, ReadFile(dir, from))}
Rename(dir, from, to) ==
    {f \in dir : f.name \notin {from, to}}
        \cup {File(to, ReadFile(dir, from))}

\* one file-system mutation
FsOp(op, name, to) == [op |-> op, name |-> name, to |-> to]

\* objectPath(kind, hash), relative to objectsDir
objectPath(kind, hash) == hash \o "." \o kind

\* makeRef(kind, hash): the string kind:hash, written as its segments
\* between colons
makeRef(kind, hash) == <<kind, hash>>

\* parseRef(ref): const [kind, hash] = ref.split(":")
parseRef(ref) ==
    LET kind == ref[1]
        hash == IF Len(ref) >= 2 THEN ref[2] ELSE ""
    IN IF (kind # "json" /\ kind # "jsonl") \/ hash = ""
       THEN [ok |-> FALSE, kind |-> kind, hash |-> hash]
       ELSE [ok |-> TRUE, kind |-> kind, hash |-> hash]

\* the lines of a text: the token runs between line terminators
RECURSIVE SplitLines(_, _)
SplitLines(toks, line) ==
    IF toks = <<>> THEN <<line>>
    ELSE IF toks[1] = NL THEN <<line>> \o SplitLines(Tail(toks), <<>>)
    ELSE SplitLines(Tail(toks), Append(line, toks[1]))

\* the lines readJSONL and parseJsonlFile look at: trimmed, blanks dropped
NonBlankLines(toks) ==
    SelectSeq(SplitLines(toks, <<>>), LAMBDA line : line # <<>>)

\* the text putJSONL emits for a list of items
RECURSIVE JsonlText(_)
JsonlText(list) ==
    IF list = <<>> THEN <<>>
    ELSE JSONstringify(list[1]) \o <<NL>> \o JsonlText(Tail(list))

\* a store call: arguments and outcome
CallRec(op) ==
    [op |-> op, val |-> Undefined, list |-> <<>>, ref |-> <<>>,
     data |-> <<>>, outcome |-> "ok", retRef |-> <<>>, ret |-> Undefined,
     tmp |-> "", wrote |-> FALSE]

\* the locals of putJSONL
NoCall == [list |-> <<>>, k |-> 0, tmp |-> "", text |-> <<>>]

\* no generator, and a generator object of readJSONL(path)
NoGen == [live |-> FALSE, name |-> "", pos |-> 0, state |-> "done"]
Loop(got, st) == [got |-> got, st |-> st]

StoreInit ==
    /\ objects = {}
    /\ fsLog = <<>>
    /\ clock = 0
    /\ storePc = "idle"
    /\ call = NoCall
    /\ calls = <<>>
    /\ gen = NoGen
    /\ loops = <<>>
    /\ opts = [restrictStatuses |-> TRUE]
    /\ stream = <<>>
    /\ out = <<>>
    /\ foldPc = "idle"
    /\ all = <<>>
    /\ items = <<>>
    /\ idx = 1
    /\ processed = {}
    /\ threads = <<>>
    /\ conversations = <<>>
    /\ chain = <<>>
    /\ current = None
    /\ result = None
    /\ pc = "idle"
    /\ LedgerIdle
    /\ GraphIdle
    /\ CliIdle
    /\ MsgIdle
    /\ SegIdle
    /\ ConcIdle
    /\ ManyIdle

\* a new call may start: none is in flight, no loop is running
CanCall ==
    /\ storePc = "idle"
    /\ Len(calls) < MaxCalls
    /\ \A i \in 1..Len(loops) : loops[i].st # "running"

\* a read may start: a call may, and fewer than MaxGets reads were made
CanGet ==
    /\ CanCall
    /\ Cardinality({i \in 1..Len(calls) :
          calls[i].op \in {"getObject", "getJSONL", "parseJsonlFile"}})
          < MaxGets

\* putObject(obj): stat, then writeFile unless the blob exists
PutObject ==
    /\ CanCall
    /\ \E obj \in PutValues :
          LET json == stableStringify(obj)
              hash == hashString(json)
              ref == makeRef("json", hash)
              p == objectPath("json", hash)
              exists == Stat(objects, p)
          IN /\ objects' = IF exists THEN objects
                           ELSE WriteFile(objects, p, json)
             /\ fsLog' = IF exists THEN fsLog
                         ELSE Append(fsLog, FsOp("writeFile", p, ""))
             /\ calls' = Append(calls,
                    [CallRec("putObject") EXCEPT !.val = obj,
                        !.retRef = ref, !.wrote = ~exists])
    /\ UNCHANGED <<clock, storePc, call, gen, loops>>
    /\ UNCHANGED outsideStore

\* putJSONL(iterable), up to fsp.open(tmpPath, "w")
PutJSONLOpen ==
    /\ CanCall
    /\ \E list \in ItemLists, dt \in {0, 1}, rnd \in Randoms :
          LET tmpName == ".tmp-" \o ToString(clock + dt) \o "-" \o rnd
          IN /\ clock + dt <= MaxClock
             /\ clock' = clock + dt
             /\ objects' = WriteFile(objects, tmpName, <<>>)
             /\ fsLog' = Append(fsLog, FsOp("open", tmpName, ""))
             /\ call' = [list |-> list, k |-> 1, tmp |-> tmpName,
                         text |-> <<>>]
    /\ storePc' = "write"
    /\ UNCHANGED <<calls, gen, loops>>
    /\ UNCHANGED outsideStore

\* one turn of the for-await loop: write the line, feed the hash
PutJSONLWrite ==
    /\ storePc = "write"
    /\ call.k <= Len(call.list)
    /\ LET line == JSONstringify(call.list[call.k]) \o <<NL>>
       IN /\ objects' = WriteFile(objects, call.tmp,
                            ReadFile(objects, call.tmp) \o line)
          /\ call' = [call EXCEPT !.k = @ + 1, !.text = @ \o line]
    /\ UNCHANGED <<fsLog, clock, storePc, calls, gen, loops>>
    /\ UNCHANGED outsideStore

\* the iterable or fh.write throws: finally closes the handle and the
\* error leaves putJSONL
PutJSONLThrow ==
    /\ storePc = "write"
    /\ call.k <= Len(call.list)
    /\ calls' = Append(calls,
           [CallRec("putJSONL") EXCEPT !.list = call.list,
               !.outcome = "threw", !.tmp = call.tmp])
    /\ storePc' = "idle"
    /\ call' = NoCall
    /\ UNCHANGED <<objects, fsLog, clock, gen, loops>>
    /\ UNCHANGED outsideStore

\* the iterable is exhausted: close, digest, then remove the temp file
\* when the blob exists and rename it into place otherwise
PutJSONLFinish ==
    /\ storePc = "write"
    /\ call.k > Len(call.list)
    /\ LET hash == hashString(call.text)
           ref == makeRef("jsonl", hash)
           finalPath == objectPath("jsonl", hash)
           exists == Stat(objects, finalPath)
       IN /\ objects' = IF exists THEN Remove(objects, call.tmp)
                        ELSE Rename(objects, call.tmp, finalPath)
          /\ fsLog' = Append(fsLog,
                 IF exists THEN FsOp("rm", call.tmp, "")
                 ELSE FsOp("rename", call.tmp, finalPath))
          /\ calls' = Append(calls,
                 [CallRec("putJSONL") EXCEPT !.list = call.list,
                     !.retRef = ref, !.tmp = call.tmp, !.wrote = ~exists])
    /\ storePc' = "idle"
    /\ call' = NoCall
    /\ UNCHANGED <<clock, gen, loops>>
    /\ UNCHANGED outsideStore

\* the references a caller may hold: those the store returned, the same
\* hash under another kind or followed by a further segment, a hash no
\* blob has, and strings that are not references
MissingHash == "sha256<missing>"
KnownHashes == {calls[i].retRef[2] :
                   i \in {j \in 1..Len(calls) : calls[j].retRef # <<>>}}
                \cup {MissingHash}
Refs ==
    UNION {{<<"json", h>>, <<"jsonl", h>>, <<"json", h, "x">>} :
              h \in KnownHashes}
        \cup {<<"blob", MissingHash>>, <<"json">>, <<"json", "zz">>}
\* those handed to getJSONL: every jsonl reference, and two others
JsonlRefs ==
    {ref \in Refs : ref[1] = "jsonl"}
        \cup {<<"json", MissingHash>>, <<"jsonl">>}

\* getObject(ref)
getObject(dir, ref) ==
    LET r == parseRef(ref)
        p == objectPath(r.kind, r.hash)
    IN IF ~r.ok \/ r.kind # "json"
       THEN [outcome |-> "invalid-ref", v |-> Undefined]
       ELSE IF p \notin Names(dir)
       THEN [outcome |-> "not-found", v |-> Undefined]
       ELSE LET parsed == JSONparse(ReadFile(dir, p))
            IN IF parsed.ok THEN [outcome |-> "ok", v |-> parsed.v]
               ELSE [outcome |-> "syntax-error", v |-> Undefined]

GetObject ==
    /\ CanGet
    /\ \E ref \in Refs :
          LET r == getObject(objects, ref)
          IN calls' = Append(calls,
                 [CallRec("getObject") EXCEPT !.ref = ref,
                     !.outcome = r.outcome, !.ret = r.v])
    /\ UNCHANGED <<objects, fsLog, clock, storePc, call, gen, loops>>
    /\ UNCHANGED outsideStore

\* getJSONL(ref): throws on a bad reference, otherwise returns the
\* generator object readJSONL(path), not yet started
GetJSONL ==
    /\ CanGet
    /\ \E ref \in JsonlRefs :
          LET r == parseRef(ref)
              bad == ~r.ok \/ r.kind # "jsonl"
          IN /\ calls' = Append(calls,
                    [CallRec("getJSONL") EXCEPT !.ref = ref,
                        !.outcome = IF bad THEN "invalid-ref" ELSE "ok"])
             /\ gen' = IF bad THEN gen
                       ELSE [live |-> TRUE,
                             name |-> objectPath(r.kind, r.hash),
                             pos |-> 0, state |-> "suspended"]
             /\ loops' = IF bad THEN loops ELSE <<>>
    /\ UNCHANGED <<objects, fsLog, clock, storePc, call>>
    /\ UNCHANGED outsideStore

\* for await (const x of gen): gen[Symbol.asyncIterator]() is gen itself
ForAwaitStart ==
    /\ storePc = "idle"
    /\ gen.live
    /\ Len(loops) < MaxLoops
    /\ \A i \in 1..Len(loops) : loops[i].st # "running"
    /\ loops' = Append(loops, Loop(<<>>, "running"))
    /\ UNCHANGED <<objects, fsLog, clock, storePc, call, calls, gen>>
    /\ UNCHANGED outsideStore

\* gen.next(): a finished generator reports done; a running one reads on
\* to the next non-blank line and yields JSON.parse of it, or throws
\* (no such file, SyntaxError) and is finished
ForAwaitNext ==
    /\ loops # <<>>
    /\ loops[Len(loops)].st = "running"
    /\ LET n == Len(loops)
           missing == gen.name \notin Names(objects)
           lines == IF missing THEN <<>>
                    ELSE NonBlankLines(ReadFile(objects, gen.name))
       IN IF gen.state = "done"
          THEN /\ loops' = [loops EXCEPT ![n].st = "completed"]
               /\ gen' = gen
          ELSE IF missing
          THEN /\ loops' = [loops EXCEPT ![n].st = "not-found"]
               /\ gen' = [gen EXCEPT !.state = "done"]
          ELSE IF gen.pos >= Len(lines)
          THEN /\ loops' = [loops EXCEPT ![n].st = "completed"]
               /\ gen' = [gen EXCEPT !.state = "done"]
          ELSE LET parsed == JSONparse(lines[gen.pos + 1])
               IN IF parsed.ok
                  THEN /\ loops' = [loops EXCEPT
                                       ![n].got = Append(@, parsed.v)]
                       /\ gen' = [gen EXCEPT !.pos = @ + 1]
                  ELSE /\ loops' = [loops EXCEPT ![n].st = "syntax-error"]
                       /\ gen' = [gen EXCEPT !.state = "done"]
    /\ UNCHANGED <<objects, fsLog, clock, storePc, call, calls>>
    /\ UNCHANGED outsideStore

\* break inside the loop body: for-await calls gen.return()
ForAwaitBreak ==
    /\ loops # <<>>
    /\ loops[Len(loops)].st = "running"
    /\ loops[Len(loops)].got # <<>>
    /\ loops' = [loops EXCEPT ![Len(loops)].st = "broken"]
    /\ gen' = [gen EXCEPT !.state = "done"]
    /\ UNCHANGED <<objects, fsLog, clock, storePc, call, calls>>
    /\ UNCHANGED outsideStore

\* decision files offered to --decisions-import
BadLine == <<P("{"), LitTok("oops")>>
ImportFiles == {JsonlText(<<ValA1, ValR1>>),
                JSONstringify(ValA1) \o <<NL>> \o BadLine \o <<NL, NL>>
                    \o JSONstringify(ValR1)}

\* parseJsonlFile(filePath): every line that parses, in order
RECURSIVE ParseEach(_)
ParseEach(lines) ==
    IF lines = <<>> THEN <<>>
    ELSE LET parsed == JSONparse(lines[1])
         IN (IF parsed.ok THEN <<parsed.v>> ELSE <<>>)
            \o ParseEach(Tail(lines))

parseJsonlFile(raw) == ParseEach(NonBlankLines(raw))

\* the pipeline reads a decisions file
ImportDecisions ==
    /\ CanGet
    /\ \E raw \in ImportFiles :
          calls' = Append(calls,
              [CallRec("parseJsonlFile") EXCEPT !.data = raw,
                  !.list = parseJsonlFile(raw)])
    /\ UNCHANGED <<objects, fsLog, clock, storePc, call, gen, loops>>
    /\ UNCHANGED outsideStore

StoreNext ==
    \/ PutObject
    \/ PutJSONLOpen
    \/ PutJSONLWrite
    \/ PutJSONLThrow
    \/ PutJSONLFinish
    \/ GetObject
    \/ GetJSONL
    \/ ForAwaitStart
    \/ ForAwaitNext
    \/ ForAwaitBreak
    \/ ImportDecisions

StoreSpec == StoreInit /\ [][StoreNext]_vars

(***************************************************************************)
(* Properties of the object store                                          *)
(***************************************************************************)

\* a value as a mathematical object: an object or array is the map from
\* its keys to its members, whatever the insertion order
RECURSIVE Logical(_)
Logical(v) ==
    [t |-> v.t, v |-> v.v,
     m |-> [key \in KeysOf(v) |-> Logical(Get(v, key))]]

\* the completed calls of one operation
CallsOf(op) == {i \in 1..Len(calls) : calls[i].op = op}

\* how many file-system operations have put content at a path
WritesTo(name) ==
    Cardinality({n \in 1..Len(fsLog) :
        \/ fsLog[n].op = "writeFile" /\ fsLog[n].name = name
        \/ fsLog[n].op = "rename" /\ fsLog[n].to = name})

\* C11: putObject is idempotent and blind to key insertion order: two
\* calls with logically equal values (equal up to the insertion order of
\* keys, at any depth) return the same reference, exactly one blob exists
\* for that hash, it was written exactly once, and the later call wrote
\* nothing.
C11_PutObjectIdempotent ==
    \A i, j \in CallsOf("putObject") :
        (i <= j /\ Logical(calls[i].val) = Logical(calls[j].val)) =>
            LET p == objectPath("json", calls[i].retRef[2])
            IN /\ calls[i].retRef = calls[j].retRef
               /\ calls[i].retRef[1] = "json"
               /\ Cardinality({f \in objects : f.name = p}) = 1
               /\ WritesTo(p) = 1
               /\ i < j => ~calls[j].wrote

\* three calls with a nested object whose inner keys come in two orders
C11_Witness ==
    /\ Len(calls) = 3
    /\ calls[1].op = "putObject" /\ calls[1].val = ValN1
    /\ calls[2].op = "putObject" /\ calls[2].val = ValN2
    /\ calls[3].op = "putObject" /\ calls[3].val = ValN1
    /\ calls[1].wrote /\ ~calls[2].wrote /\ ~calls[3].wrote
    /\ calls[1].retRef = calls[3].retRef

\* the temp-file names putJSONL can have used so far
TempNames ==
    {".tmp-" \o ToString(c) \o "-" \o rnd : c \in 0..clock, rnd \in Randoms}
\* the hash-named blobs of the objects directory
Blobs == {f \in objects : f.name \notin TempNames}

\* the path a file-system operation puts content at or takes it from
Targets(o) == IF o.op = "rename" THEN {o.to} ELSE {o.name}

\* C12: a hash-named blob never changes once it exists: every step keeps
\* each existing blob with its content, and no file-system operation of
\* the step writes to, renames over or removes an existing blob.
C12_BlobsNeverChange ==
    [][/\ \A f \in Blobs : f \in objects'
       /\ \A n \in (Len(fsLog) + 1)..Len(fsLog') :
             Targets(fsLog'[n]) \cap {f.name : f \in Blobs} = {}]_vars

\* both kinds of blob exist and each has been put a second time
C12_Witness ==
    /\ Len(calls) = 3
    /\ calls[1].op = "putJSONL" /\ calls[1].wrote
    /\ calls[2].op = "putJSONL" /\ calls[2].outcome = "ok"
    /\ calls[2].list = calls[1].list /\ ~calls[2].wrote
    /\ calls[3].op = "putObject" /\ calls[3].wrote
    /\ Cardinality(Blobs) = 2

\* call j is a successful putJSONL that directly follows a successful
\* putJSONL of the same items
RepeatedPutJSONL(j) ==
    /\ j >= 2
    /\ j <= Len(calls)
    /\ calls[j - 1].op = "putJSONL" /\ calls[j - 1].outcome = "ok"
    /\ calls[j].op = "putJSONL" /\ calls[j].outcome = "ok"
    /\ calls[j].list = calls[j - 1].list

\* C13: two putJSONL calls in a row with the same items return the same
\* reference; there is exactly one .jsonl blob for the content, the second
\* call wrote no blob, and once it has returned neither call's temp file
\* is left: the second call removed its temp file instead of renaming it.
C13_RepeatedPutJSONLReuses ==
    \A j \in 1..Len(calls) :
        RepeatedPutJSONL(j) =>
            LET p == objectPath("jsonl", calls[j].retRef[2])
            IN /\ calls[j].retRef = calls[j - 1].retRef
               /\ calls[j].retRef[1] = "jsonl"
               /\ Cardinality({f \in objects : f.name = p}) = 1
               /\ ReadFile(objects, p) = JsonlText(calls[j].list)
               /\ WritesTo(p) = 1
               /\ ~calls[j].wrote
               /\ (j = Len(calls) /\ storePc = "idle") =>
                     /\ calls[j].tmp \notin Names(objects)
                     /\ calls[j - 1].tmp \notin Names(objects)
                     /\ fsLog[Len(fsLog)] = FsOp("rm", calls[j].tmp, "")

\* two items stored twice; nothing else has been called
C13_Witness ==
    /\ Len(calls) = 2
    /\ RepeatedPutJSONL(2)
    /\ calls[2].list = <<ValA1, ValR1>>
    /\ storePc = "idle"
    /\ Names(objects) = {objectPath("jsonl", calls[2].retRef[2])}

\* the digests a reference of this model can carry
HexHashes ==
    {hashString(stableStringify(v)) : v \in PutValues}
        \cup {hashString(JsonlText(list)) : list \in ItemLists}
        \cup {MissingHash}

\* <kind>:<hex-hash>
WellFormedRef(ref) ==
    /\ Len(ref) = 2
    /\ ref[1] \in {"json", "jsonl"}
    /\ ref[2] \in HexHashes

\* the step completes a call of the operation
Completes(op) ==
    /\ Len(calls') = Len(calls) + 1
    /\ calls'[Len(calls')].op = op

\* a completed putObject stored this value under the reference
StoredAs(ref, v) ==
    \E i \in CallsOf("putObject") :
        calls[i].retRef = ref /\ Logical(calls[i].val) = Logical(v)

\* C14: getObject(ref) fails with an invalid-reference error whenever ref
\* is malformed or its kind is not json, fails with a not-found error when
\* the kind is json and no blob exists for the hash, and otherwise returns
\* the stored value; a failed getObject creates or changes no blob.
C14_GetObjectOutcomes ==
    [][Completes("getObject") =>
          LET c == calls'[Len(calls')]
              bad == ~WellFormedRef(c.ref) \/ c.ref[1] # "json"
          IN /\ bad => c.outcome = "invalid-ref"
             /\ (~bad /\ ~Stat(objects, objectPath("json", c.ref[2])))
                   => c.outcome = "not-found"
             /\ (~bad /\ Stat(objects, objectPath("json", c.ref[2])))
                   => (c.outcome = "ok" /\ StoredAs(c.ref, c.ret))
             /\ c.outcome # "ok" => objects' = objects]_vars

\* the lines of the blob the generator reads, when the blob exists
GenLines ==
    IF gen.live /\ Stat(objects, gen.name)
    THEN NonBlankLines(ReadFile(objects, gen.name))
    ELSE <<>>
AllParse(lines) == \A n \in 1..Len(lines) : JSONparse(lines[n]).ok

\* C15: the sequence returned by one getJSONL call is restartable: every
\* for-await loop over it that runs to its end, the first as well as one
\* started after a complete or a broken-off earlier loop, has received
\* every stored line in order from the first; every loop ends.
C15_GetJSONLRestartable ==
    (gen.live /\ Stat(objects, gen.name) /\ AllParse(GenLines)) =>
        \A n \in 1..Len(loops) :
            /\ loops[n].st = "completed" => loops[n].got = ParseEach(GenLines)
            /\ Len(loops[n].got) <= Len(GenLines)

\* C16: a non-parseable line is skipped and nothing else: the first loop
\* over a stored JSONL blob never stops at a bad line and, run to its
\* end, has received every parseable line in order; an imported decisions
\* file yields every parseable line in order.
C16_BadLineSkipped ==
    /\ \A n \in 1..Len(loops) : loops[n].st # "syntax-error"
    /\ (loops # <<>> /\ loops[1].st = "completed" /\ Stat(objects, gen.name))
          => loops[1].got = ParseEach(GenLines)
    /\ \A i \in CallsOf("parseJsonlFile") :
          calls[i].list = ParseEach(NonBlankLines(calls[i].data))

(***************************************************************************)
(* FsStore: the checkpoint ledger                                          *)
(***************************************************************************)

\* clock readings 0..MaxNow, in milliseconds after 2025-01-01T00:00:00.000Z
MaxNow == 2
\* saveCheckpoint calls made in one behaviour
MaxSaves == 3
\* ledger reads made between two writes
MaxReads == 1

SCHEMA_VERSION == "0.1.0"

\* new Date().toISOString()
IsoString(t) == "2025-01-01T00:00:00.00" \o ToString(t) \o "Z"
\* new Date().toISOString().replace(/[:.]/g, "-")
StampOf(t) == "2025-01-01T00-00-00-00" \o ToString(t) \o "Z"
\* a createdAt before every clock reading
OldIso == "2024-12-31T00:00:00.000Z"

\* the createdAt strings in the order of localeCompare
CreatedAtOrder ==
    <<"", OldIso>> \o [t \in 1..(MaxNow + 1) |-> IsoString(t - 1)]
CreatedAtRank(str) ==
    CHOOSE i \in 1..Len(CreatedAtOrder) : CreatedAtOrder[i] = str

\* v is falsy; v is null or undefined
Falsy(v) ==
    v.t = "undef" \/ v = Null \/ v = Str("") \/ v = Lit("0")
        \/ v = Lit("false")
Nullish(v) == v.t = "undef" \/ v = Null
\* a ?? b, a || b
Coalesced(a, b) == IF Nullish(a) THEN b ELSE a
OrElse(a, b) == IF Falsy(a) THEN b ELSE a

\* { ...v, key: val }: an existing key keeps its place
Put(v, key, val) ==
    IF HasKey(v, key)
    THEN [v EXCEPT !.kv = [i \in 1..Len(v.kv) |->
                              IF v.kv[i][1] = key THEN <<key, val>>
                              ELSE v.kv[i]]]
    ELSE [v EXCEPT !.kv = Append(@, <<key, val>>)]

\* createCheckpointManifest(args) at clock reading t
createCheckpointManifest(args, t) ==
    Obj(<< <<"id", Str("")>>,
           <<"createdAt", Str(IsoString(t))>>,
           <<"schemaVersion", Str(SCHEMA_VERSION)>>,
           <<"parentId", Coalesced(args.parentId, Null)>>,
           <<"sourceRefs", Coalesced(args.sourceRefs, Arr(<<>>))>>,
           <<"inputs", Obj(<< <<"itemsRef", args.itemsRef>> >>)>>,
           <<"transforms", Coalesced(args.transforms, Arr(<<>>))>>,
           <<"decisionsRef", args.decisionsRef>>,
           <<"materialized", args.materialized>>,
           <<"notes", args.notes>> >>)

\* generateCheckpointId(manifest) at clock reading t
generateCheckpointId(m, t) ==
    LET basis == stableStringify(Obj(<<
            <<"parentId", Coalesced(Get(m, "parentId"), Null)>>,
            <<"inputs", Coalesced(Get(m, "inputs"), Obj(<<>>))>>,
            <<"transforms", Coalesced(Get(m, "transforms"), Arr(<<>>))>>,
            <<"notes", Coalesced(Get(m, "notes"), Str(""))>> >>))
    IN StampOf(t) \o "-" \o ShortHash(basis)

\* the id and the manifest saveCheckpoint(manifest) writes at reading t
SavedId(m, t) ==
    IF Falsy(Get(m, "id")) THEN generateCheckpointId(m, t)
    ELSE Get(m, "id").v
FullManifest(m, t) ==
    Put(Put(Put(m, "id", Str(SavedId(m, t))),
            "schemaVersion",
            OrElse(Get(m, "schemaVersion"), Str(SCHEMA_VERSION))),
        "createdAt", OrElse(Get(m, "createdAt"), Str(IsoString(t))))

\* path.join(checkpointsDir, `${id}.json`), relative to checkpointsDir
checkpointPath(id) == id \o ".json"

\* the checkpoints directory after saveCheckpoint(manifest)
saveCheckpoint(dir, m, t) ==
    WriteFile(dir, checkpointPath(SavedId(m, t)),
              stableStringify(FullManifest(m, t)))

\* readCheckpoint(id)
readCheckpoint(dir, id) ==
    IF ~Stat(dir, checkpointPath(id))
    THEN [outcome |-> "not-found", v |-> Undefined]
    ELSE LET parsed == JSONparse(ReadFile(dir, checkpointPath(id)))
         IN IF parsed.ok THEN [outcome |-> "ok", v |-> parsed.v]
            ELSE [outcome |-> "syntax-error", v |-> Undefined]

\* the manifests listCheckpoints pushes: every file that parses
ParsedManifests(dir) ==
    {JSONparse(f.data).v : f \in {g \in dir : JSONparse(g.data).ok}}

\* a.createdAt || ""
CreatedAtOf(m) ==
    LET c == Get(m, "createdAt") IN IF c.t = "str" THEN c.v ELSE ""

\* listCheckpoints(): out.sort by createdAt is stable, so manifests with
\* equal createdAt stay in the order of fsp.readdir, which is any order
listCheckpoints(dir) ==
    LET ms == ParsedManifests(dir)
        n == Cardinality(ms)
    IN {l \in [1..n -> ms] :
           /\ \A i, j \in 1..n : i # j => l[i] # l[j]
           /\ \A i, j \in 1..n :
                 i < j => CreatedAtRank(CreatedAtOf(l[i]))
                              <= CreatedAtRank(CreatedAtOf(l[j]))}

\* resolveLatestCheckpoint(): list[list.length - 1], or null
resolveLatestCheckpoint(dir) ==
    {IF l = <<>> THEN Null ELSE l[Len(l)] : l \in listCheckpoints(dir)}

\* arguments of createCheckpointManifest
Transform(since) ==
    Obj(<< <<"name", Str("filter")>>,
           <<"config", Obj(<< <<"since", since>> >>)>> >>)
ArgsMin ==
    [parentId |-> Undefined, itemsRef |-> Str("jsonl:i1"),
     sourceRefs |-> Undefined, transforms |-> Undefined,
     decisionsRef |-> Undefined, materialized |-> Undefined,
     notes |-> Undefined]
ArgsFull(notes) ==
    [parentId |-> Null, itemsRef |-> Str("jsonl:i1"),
     sourceRefs |-> Arr(<<>>),
     transforms |-> Arr(<<Transform(Str("2025-01-01"))>>),
     decisionsRef |-> Str("jsonl:d1"),
     materialized |-> Obj(<< <<"threadsRef", Str("json:t1")>> >>),
     notes |-> notes]
ArgsUnset ==
    [ArgsFull(Str("n1")) EXCEPT !.transforms = Arr(<<Transform(Undefined)>>)]
CreateArgs == {ArgsMin, ArgsFull(Str("n1")), ArgsFull(Str("n2")), ArgsUnset}

\* the manifests handed to saveCheckpoint at reading t: built by
\* createCheckpointManifest, with or without an id of the caller's, and
\* with a createdAt of the caller's or none
ExplicitId == "cp-A"
SaveInputs(t) ==
    LET built == {createCheckpointManifest(a, t) : a \in CreateArgs}
        whole == {createCheckpointManifest(ArgsFull(Str(n)), t) :
                     n \in {"n1", "n2"}}
    IN built
         \cup {Put(m, "id", Str(ExplicitId)) : m \in whole}
         \cup {Put(createCheckpointManifest(ArgsFull(Str("n1")), t),
                    "createdAt", Str(c)) : c \in {"", OldIso}}

\* a completed saveCheckpoint, and a completed read of the ledger
SaveRec(m, t) ==
    [arg |-> m, id |-> SavedId(m, t), full |-> FullManifest(m, t), at |-> t]
ReadRec(op, id, outcome, ret, list) ==
    [op |-> op, id |-> id, outcome |-> outcome, ret |-> ret, list |-> list]

LedgerInit ==
    /\ checkpoints = {}
    /\ now = 0
    /\ saved = <<>>
    /\ reads = <<>>
    /\ runs = <<>>
    /\ opts = [restrictStatuses |-> TRUE]
    /\ stream = <<>>
    /\ out = <<>>
    /\ foldPc = "idle"
    /\ all = <<>>
    /\ items = <<>>
    /\ idx = 1
    /\ processed = {}
    /\ threads = <<>>
    /\ conversations = <<>>
    /\ chain = <<>>
    /\ current = None
    /\ result = None
    /\ pc = "idle"
    /\ StoreIdle
    /\ GraphIdle
    /\ CliIdle
    /\ MsgIdle
    /\ SegIdle
    /\ ConcIdle
    /\ ManyIdle

\* a millisecond passes
Tick ==
    /\ now < MaxNow
    /\ now' = now + 1
    /\ UNCHANGED <<checkpoints, saved, reads, runs>>
    /\ UNCHANGED outsideLedger

\* store.saveCheckpoint(manifest)
SaveCheckpoint ==
    /\ Len(saved) < MaxSaves
    /\ \E m \in SaveInputs(now) :
          /\ checkpoints' = saveCheckpoint(checkpoints, m, now)
          /\ saved' = Append(saved, SaveRec(m, now))
    /\ reads' = <<>>
    /\ UNCHANGED <<now, runs>>
    /\ UNCHANGED outsideLedger

\* store.readCheckpoint(id), for an id saveCheckpoint returned or another
ReadCheckpoint ==
    /\ Len(reads) < MaxReads
    /\ \E id \in {saved[i].id : i \in 1..Len(saved)} \cup {"cp-none"} :
          LET r == readCheckpoint(checkpoints, id)
          IN reads' = Append(reads,
                 ReadRec("readCheckpoint", id, r.outcome, r.v, <<>>))
    /\ UNCHANGED <<checkpoints, now, saved, runs>>
    /\ UNCHANGED outsideLedger

\* store.listCheckpoints()
ListCheckpoints ==
    /\ Len(reads) < MaxReads
    /\ \E l \in listCheckpoints(checkpoints) :
          reads' = Append(reads,
              ReadRec("listCheckpoints", "", "ok", Undefined, l))
    /\ UNCHANGED <<checkpoints, now, saved, runs>>
    /\ UNCHANGED outsideLedger

\* store.resolveLatestCheckpoint()
ResolveLatestCheckpoint ==
    /\ Len(reads) < MaxReads
    /\ \E m \in resolveLatestCheckpoint(checkpoints) :
          reads' = Append(reads,
              ReadRec("resolveLatestCheckpoint", "", "ok", m, <<>>))
    /\ UNCHANGED <<checkpoints, now, saved, runs>>
    /\ UNCHANGED outsideLedger

\* the checkpoint step of a pipeline run without --dry-run: resolve the
\* latest manifest, build this run's manifest on it, save it.  notes is
\* not passed; since and decisionsRef are unset unless the run was given
\* --since or decisions.  A run takes more than a millisecond.
PipelineRun ==
    /\ Len(saved) < MaxSaves
    /\ IF runs = <<>> THEN TRUE ELSE runs[Len(runs)].at < now
    /\ \E latest \in resolveLatestCheckpoint(checkpoints),
          since \in {Undefined, Str("2025-01-01")},
          decisionsRef \in {Undefined, Str("jsonl:d1")} :
          LET parentId == OrElse(IF Falsy(latest) THEN latest
                                 ELSE Get(latest, "id"), Null)
              manifest == createCheckpointManifest(
                  [parentId |-> parentId, itemsRef |-> Str("jsonl:i1"),
                   sourceRefs |-> Arr(<<>>),
                   transforms |-> Arr(<<Transform(since)>>),
                   decisionsRef |-> decisionsRef,
                   materialized |->
                       Obj(<< <<"threadsRef", Str("json:t1")>> >>),
                   notes |-> Undefined], now)
          IN /\ checkpoints' = saveCheckpoint(checkpoints, manifest, now)
             /\ saved' = Append(saved, SaveRec(manifest, now))
             /\ runs' = Append(runs, [id |-> SavedId(manifest, now),
                                      parentId |-> parentId, at |-> now])
    /\ reads' = <<>>
    /\ UNCHANGED now
    /\ UNCHANGED outsideLedger

LedgerNext ==
    \/ Tick
    \/ SaveCheckpoint
    \/ ReadCheckpoint
    \/ ListCheckpoints
    \/ ResolveLatestCheckpoint
    \/ PipelineRun

LedgerSpec == LedgerInit /\ [][LedgerNext]_vars

(***************************************************************************)
(* Properties of the checkpoint ledger                                     *)
(***************************************************************************)

\* a value as JSON carries it: a key whose value is undefined is absent
RECURSIVE JsonLogical(_)
JsonLogical(v) ==
    [t |-> v.t, v |-> v.v,
     m |-> [key \in {k \in KeysOf(v) : Get(v, k).t # "undef"} |->
               JsonLogical(Get(v, key))]]
SameJson(a, b) == JsonLogical(a) = JsonLogical(b)

\* the manifest is among those of a list
Listed(l, m) == \E k \in 1..Len(l) : SameJson(l[k], m)

\* the argument of a save with id, createdAt and schemaVersion filled in
FilledIn(sv) ==
    /\ \A key \in KeysOf(sv.arg) \ {"id", "createdAt", "schemaVersion"} :
          Get(sv.full, key) = Get(sv.arg, key)
    /\ Get(sv.full, "id") = Str(sv.id) /\ sv.id # ""
    /\ Get(sv.full, "createdAt").t = "str" /\ CreatedAtOf(sv.full) # ""
    /\ Get(sv.full, "schemaVersion") = Str(SCHEMA_VERSION)

\* C17: checkpoint round trip: once saveCheckpoint(m) has returned an id,
\* readCheckpoint of that id succeeds and returns m with id, createdAt and
\* schemaVersion filled in, and listCheckpoints() includes that manifest;
\* this for every m, also one whose optional fields or transform options
\* are unset.
C17_CheckpointRoundTrip ==
    saved # <<>> =>
        LET sv == saved[Len(saved)]
            r == readCheckpoint(checkpoints, sv.id)
        IN /\ FilledIn(sv)
           /\ r.outcome = "ok"
           /\ SameJson(r.v, sv.full)
           /\ \A l \in listCheckpoints(checkpoints) : Listed(l, sv.full)

\* C18: after any sequence of saveCheckpoint calls, listCheckpoints
\* returns all saved manifests in ascending createdAt order, and
\* resolveLatestCheckpoint returns null exactly when nothing was saved and
\* otherwise a saved manifest whose createdAt is not below any saved one.
C18_ListAndLatest ==
    /\ \A l \in listCheckpoints(checkpoints) :
          /\ \A i \in 1..Len(saved) : Listed(l, saved[i].full)
          /\ \A i, j \in 1..Len(l) :
                i < j => CreatedAtRank(CreatedAtOf(l[i]))
                             <= CreatedAtRank(CreatedAtOf(l[j]))
    /\ \A m \in resolveLatestCheckpoint(checkpoints) :
          /\ m = Null <=> saved = <<>>
          /\ m # Null =>
                /\ \E i \in 1..Len(saved) : SameJson(m, saved[i].full)
                /\ \A i \in 1..Len(saved) :
                      CreatedAtRank(CreatedAtOf(saved[i].full))
                          <= CreatedAtRank(CreatedAtOf(m))

\* C19: when only pipeline runs write the ledger, each run's manifest has
\* as parentId the id of the manifest the run before it saved, and null
\* for the first run alone: one parent chain, no fork, no cycle.
C19_RunsFormOneChain ==
    Len(saved) = Len(runs) =>
        \A k \in 1..Len(runs) :
            runs[k].parentId =
                IF k = 1 THEN Null ELSE Str(runs[k - 1].id)

\* C20: checkpoint manifests are write-once: no step changes or replaces
\* the manifest stored under an id, whatever id, manifest and clock reading
\* a later saveCheckpoint comes with.
C20_ManifestsWriteOnce ==
    [][\A f \in checkpoints : f \in checkpoints']_vars

(***************************************************************************)
(* stableStringify on values that share or contain their own objects       *)
(*                                                                         *)
(* The values above are trees.  Here a value is a graph of objects: heap   *)
(* maps a reference to the object it denotes, an object holds, per slot,   *)
(* a primitive or a reference, and the value handed to putObject is the    *)
(* object behind reference 1.                                              *)
(***************************************************************************)

\* Number of objects of the value
MaxNodes == 2

\* what a slot holds when it holds no reference: a primitive
\* (typeof v !== "object")
Prim == 0

\* the keys of an object's slots, in sorted order
SlotKeys == <<"a", "b">>

KidLists(max) == UNION {[1..k -> {Prim} \cup (1..MaxNodes)] : k \in 0..max}

HeapNodes ==
    [t : {"obj"}, kids : KidLists(Len(SlotKeys))]
        \cup [t : {"arr"}, kids : KidLists(1)]

Heaps == [1..MaxNodes -> HeapNodes]

\* the value as a tree, for a value that has one
RECURSIVE Unfold(_, _)
Unfold(h, c) ==
    IF c = Prim THEN Lit("1")
    ELSE IF h[c].t = "arr"
    THEN Arr([i \in 1..Len(h[c].kids) |-> Unfold(h, h[c].kids[i])])
    ELSE Obj([i \in 1..Len(h[c].kids) |->
                 <<SlotKeys[i], Unfold(h, h[c].kids[i])>>])

\* the result of one stringify call: the text or the TypeError, and the
\* WeakSet as the call leaves it
Text(toks, seen) == [ok |-> TRUE, toks |-> toks, seen |-> seen]
CircularStructure(seen) == [ok |-> FALSE, toks |-> <<>>, seen |-> seen]

\* an object that stays in the WeakSet after it has been serialized
SeenKeep(seen, c) == seen
\* seen.delete(v)
SeenDelete(seen, c) == seen \ {c}

\* stableStringify's inner stringify(v) with the WeakSet it works on, and
\* the map() over the members of one object, left to right from the i-th
RECURSIVE stringify(_, _, _)
RECURSIVE stringifyMembers(_, _, _, _)
stringify(h, c, seen) ==
    IF c = Prim THEN Text(<<LitTok("1")>>, seen)
    ELSE IF c \in seen THEN CircularStructure(seen)
    ELSE LET m == stringifyMembers(h, c, 1, seen \cup {c})
         IN IF ~m.ok THEN CircularStructure(m.seen)
            ELSE IF h[c].t = "arr"
            THEN Text(<<P("[")>> \o JoinComma(m.parts) \o <<P("]")>>,
                      SeenDelete(m.seen, c))
            ELSE Text(<<P("{")>> \o JoinComma(m.parts) \o <<P("}")>>,
                      SeenDelete(m.seen, c))

stringifyMembers(h, c, i, seen) ==
    IF i > Len(h[c].kids)
    THEN [ok |-> TRUE, parts |-> <<>>, seen |-> seen]
    ELSE LET first == stringify(h, h[c].kids[i], seen)
         IN IF ~first.ok
            THEN [ok |-> FALSE, parts |-> <<>>, seen |-> first.seen]
            ELSE LET rest == stringifyMembers(h, c, i + 1, first.seen)
                     part == IF h[c].t = "arr" THEN first.toks
                             ELSE <<StrTok(SlotKeys[i]), P(":")>>
                                  \o first.toks
                 IN [ok |-> rest.ok, parts |-> <<part>> \o rest.parts,
                     seen |-> rest.seen]

\* stableStringify(value) for the value behind reference 1
stableStringifyGraph(h) == stringify(h, 1, {})

GraphInit ==
    /\ heap \in Heaps
    /\ graphRet = NotCalled
    /\ GroupIdle
    /\ FoldIdle
    /\ StoreIdle
    /\ LedgerIdle
    /\ CliIdle
    /\ MsgIdle
    /\ SegIdle
    /\ ConcIdle
    /\ ManyIdle

\* putObject(value): a throw of stableStringify leaves the method before
\* anything is written
PutObjectGraph ==
    /\ graphRet = NotCalled
    /\ LET r == stableStringifyGraph(heap)
           hash == hashString(r.toks)
           p == objectPath("json", hash)
       IN IF ~r.ok
          THEN /\ graphRet' = [outcome |-> "threw", ref |-> <<>>]
               /\ UNCHANGED <<objects, fsLog>>
          ELSE /\ graphRet' = [outcome |-> "returned",
                               ref |-> makeRef("json", hash)]
               /\ objects' = IF Stat(objects, p) THEN objects
                             ELSE WriteFile(objects, p, r.toks)
               /\ fsLog' = IF Stat(objects, p) THEN fsLog
                           ELSE Append(fsLog, FsOp("writeFile", p, ""))
    /\ UNCHANGED <<heap, clock, storePc, call, calls, gen, loops>>
    /\ UNCHANGED outsideGraph

GraphNext == PutObjectGraph

GraphSpec == GraphInit /\ [][GraphNext]_vars

\* ---- C21 ----

\* the references held by the objects of S
HeldBy(h, S) ==
    UNION {{h[c].kids[i] : i \in 1..Len(h[c].kids)} : c \in S} \ {Prim}

RECURSIVE Closure(_, _)
Closure(h, S) ==
    LET next == S \cup HeldBy(h, S)
    IN IF next = S THEN S ELSE Closure(h, next)

\* the objects c contains, directly or through other objects
Contains(h, c) == Closure(h, HeldBy(h, {c}))

\* some object of the value (the value itself or one it contains)
\* contains itself
Circular(h) == \E c \in {1} \cup Contains(h, 1) : c \in Contains(h, c)

\* some object is held in two slots of the value
Shared(h) ==
    \E c \in Contains(h, 1) :
        \E d, e \in {1} \cup Contains(h, 1) :
            \E i \in 1..Len(h[d].kids), j \in 1..Len(h[e].kids) :
                /\ <<d, i>> # <<e, j>>
                /\ h[d].kids[i] = c
                /\ h[e].kids[j] = c

\* C21: canonical serialization throws the circular-structure error
\* exactly when an object of the value contains itself, directly or
\* through other objects; putObject then writes nothing; every other
\* value, one that holds the same object in two places included, is
\* serialized as the tree it unfolds to and stored under that text's hash.
C21_CircularOnly ==
    [][graphRet' # NotCalled =>
          /\ (graphRet'.outcome = "threw") <=> Circular(heap)
          /\ graphRet'.outcome = "threw" =>
                /\ objects' = objects
                /\ fsLog' = fsLog
          /\ ~Circular(heap) =>
                LET json == stableStringify(Unfold(heap, 1))
                IN /\ graphRet'.ref = makeRef("json", hashString(json))
                   /\ File(objectPath("json", hashString(json)), json)
                          \in objects']_vars

\* putObject threw on a value that contains itself through a second
\* object, neither of the two holding itself
C21_Witness ==
    /\ graphRet.outcome = "threw"
    /\ 1 \notin HeldBy(heap, {1})
    /\ \E c \in Contains(heap, 1) :
          c \in Contains(heap, c) /\ c \notin HeldBy(heap, {c})
    /\ objects = {}

\* putObject returned for a value that holds one object in two places
C21_SharedWitness ==
    /\ graphRet.outcome = "returned"
    /\ Shared(heap)
    /\ objects # {}

(***************************************************************************)
(* main: parseArgs, the checkpoint step and the writers                    *)
(***************************************************************************)

DEFAULT_SYSTEM_MESSAGE == "You have been uploaded to the internet"

\* the values the flags and the environment variable are given
FlagValues == {None, "", "from --system"}
EnvValues == {None, "", "from the environment"}

AllowedFormats == {"markdown", "oai", "json", "sharegpt"}

\* --format <list>, when given
FormatLists ==
    {[given |-> FALSE, list |-> {}]}
        \cup {[given |-> TRUE, list |-> l] :
                 l \in SUBSET AllowedFormats \cup {{"yaml"}}}

\* process.argv: --system <v>, --dry-run, --format <list>, --stats-json,
\* --glowfic <url> (with --assistant), --json-stdout
Argvs ==
    [system : FlagValues, dryRun : BOOLEAN, format : FormatLists,
     statsJson : BOOLEAN, glowfic : BOOLEAN, jsonStdout : BOOLEAN]

\* parseArgs(argv): an empty --system value is not taken, and the
\* environment variable is used when it is non-empty and no value was
\* taken
parseArgs(a, e) ==
    LET systemExplicit == a.system \notin {None, ""}
    IN [systemMessage |->
            IF systemExplicit THEN a.system
            ELSE IF e \notin {None, ""} THEN e
            ELSE DEFAULT_SYSTEM_MESSAGE,
        dryRun |-> a.dryRun,
        format |-> IF a.format.list = {}
                   THEN {"markdown", "oai", "json"} ELSE a.format.list,
        statsJson |-> a.statsJson,
        glowfic |-> a.glowfic]

\* process.env.SPLICE_SYSTEM_MESSAGE ?? opts.systemMessage
systemMessage(e, o) == IF e # None THEN e ELSE o.systemMessage

\* one line of an output file; a directory has none
OutLine(system, body) == [system |-> system, body |-> body]
Directory == <<>>

\* the threads and conversations of the run, and those that
\* messagesFromConversation turns into at least one message
RunConversations == <<"thread 1", "conversation 1", "conversation 2">>
HasMessages(c) == c # "conversation 2"

\* ensureDir(p): mkdir -p
ensureDir(dir, p) ==
    IF Stat(dir, p) THEN dir ELSE dir \cup {File(p, Directory)}

RECURSIVE OAIRecords(_, _)
OAIRecords(convs, system) ==
    IF convs = <<>> THEN <<>>
    ELSE (IF HasMessages(Head(convs))
          THEN <<OutLine(system, Head(convs))>> ELSE <<>>)
         \o OAIRecords(Tail(convs), system)

\* writeMarkdown: the three directories, the copied media, one file per
\* thread
writeMarkdown(dir, dryRun) ==
    IF dryRun THEN dir
    ELSE LET dirs == ensureDir(ensureDir(ensureDir(ensureDir(dir, "."),
                         "threads"), "tweets_by_date"), "images")
         IN WriteFile(
                WriteFile(dirs, "images/_1.jpg",
                          <<OutLine(None, "media")>>),
                "threads/thread 1.md", <<OutLine(None, "thread 1")>>)

writeNormalizedJSONL(dir, dryRun) ==
    IF dryRun THEN dir
    ELSE WriteFile(ensureDir(dir, "."), "normalized_items.jsonl",
                   <<OutLine(None, "items")>>)

\* writeOAI without its dry-run return
writeOAIAlways(dir, system, dryRun) ==
    WriteFile(ensureDir(dir, "."), "conversations_oai.jsonl",
              OAIRecords(RunConversations, system))
writeOAI(dir, system, dryRun) ==
    IF dryRun THEN dir
    ELSE WriteFile(ensureDir(dir, "."), "conversations_oai.jsonl",
                   OAIRecords(RunConversations, system))

writeShareGPT(dir, dryRun) ==
    IF dryRun THEN dir
    ELSE WriteFile(ensureDir(dir, "."), "sharegpt.json",
                   <<OutLine(None, "sharegpt")>>)

writeStatsJSON(dir, dryRun) ==
    IF dryRun THEN dir
    ELSE WriteFile(ensureDir(dir, "."), "stats.json",
                   <<OutLine(None, "stats")>>)

\* what an earlier run without --dry-run left under --out
EarlierOutput ==
    {File(".", Directory),
     File("conversations_oai.jsonl",
          <<OutLine(DEFAULT_SYSTEM_MESSAGE, "thread 0")>>)}

\* what the checkpoint step leaves in the workspace: the three JSONL
\* blobs and the manifest
CheckpointFiles ==
    {File("objects", Directory), File("checkpoints", Directory),
     File("objects/items.jsonl", <<OutLine(None, "items")>>),
     File("objects/threads.jsonl", <<OutLine(None, "threads")>>),
     File("objects/conversations.jsonl",
          <<OutLine(None, "conversations")>>),
     File("checkpoints/manifest.json", <<OutLine(None, "manifest")>>)}

validFormats(o) == o.format \cap AllowedFormats

\* parseArgs has not run
NoOpts ==
    [systemMessage |-> "", dryRun |-> FALSE, format |-> {},
     statsJson |-> FALSE, glowfic |-> FALSE]

CliInit ==
    /\ argv \in Argvs
    /\ env \in EnvValues
    /\ cliOpts = NoOpts
    /\ outDir \in {{}, EarlierOutput}
    /\ workspaceDir = {}
    /\ cliPc = "start"
    /\ GroupIdle
    /\ FoldIdle
    /\ StoreIdle
    /\ LedgerIdle
    /\ GraphIdle
    /\ MsgIdle
    /\ SegIdle
    /\ ConcIdle
    /\ ManyIdle

\* const opts = parseArgs(process.argv), up to the choice of pipeline
ParseArgs ==
    /\ cliPc = "start"
    /\ cliOpts' = parseArgs(argv, env)
    /\ cliPc' = IF argv.glowfic THEN "glowfic" ELSE "checkpoint"
    /\ UNCHANGED <<argv, env, outDir, workspaceDir>>
    /\ UNCHANGED outsideCli

\* the Glowfic pipeline: one OAI file, then exit
GlowficRun ==
    /\ cliPc = "glowfic"
    /\ outDir' = IF cliOpts.dryRun THEN outDir
                 ELSE WriteFile(ensureDir(outDir, "."),
                          "conversations_oai.jsonl",
                          OAIRecords(RunConversations,
                                     systemMessage(env, cliOpts)))
    /\ cliPc' = "exit"
    /\ UNCHANGED <<argv, env, cliOpts, workspaceDir>>
    /\ UNCHANGED outsideCli

\* the checkpoint step, then the validation of the formats
CheckpointStep ==
    /\ cliPc = "checkpoint"
    /\ workspaceDir' = IF cliOpts.dryRun THEN workspaceDir
                       ELSE workspaceDir \cup CheckpointFiles
    /\ cliPc' = IF argv.jsonStdout THEN "exit"
                ELSE IF argv.format.given /\ validFormats(cliOpts) = {}
                THEN "exit"
                ELSE "markdown"
    /\ UNCHANGED <<argv, env, cliOpts, outDir>>
    /\ UNCHANGED outsideCli

WriteMarkdown ==
    /\ cliPc = "markdown"
    /\ outDir' = IF "markdown" \in validFormats(cliOpts)
                 THEN writeMarkdown(outDir, cliOpts.dryRun) ELSE outDir
    /\ cliPc' = "json"
    /\ UNCHANGED <<argv, env, cliOpts, workspaceDir>>
    /\ UNCHANGED outsideCli

WriteNormalizedJSONL ==
    /\ cliPc = "json"
    /\ outDir' = IF "json" \in validFormats(cliOpts)
                 THEN writeNormalizedJSONL(outDir, cliOpts.dryRun)
                 ELSE outDir
    /\ cliPc' = "oai"
    /\ UNCHANGED <<argv, env, cliOpts, workspaceDir>>
    /\ UNCHANGED outsideCli

WriteOAI ==
    /\ cliPc = "oai"
    /\ outDir' = IF "oai" \in validFormats(cliOpts)
                 THEN writeOAI(outDir, systemMessage(env, cliOpts),
                               cliOpts.dryRun)
                 ELSE outDir
    /\ cliPc' = "sharegpt"
    /\ UNCHANGED <<argv, env, cliOpts, workspaceDir>>
    /\ UNCHANGED outsideCli

WriteShareGPT ==
    /\ cliPc = "sharegpt"
    /\ outDir' = IF "sharegpt" \in validFormats(cliOpts)
                 THEN writeShareGPT(outDir, cliOpts.dryRun) ELSE outDir
    /\ cliPc' = "stats"
    /\ UNCHANGED <<argv, env, cliOpts, workspaceDir>>
    /\ UNCHANGED outsideCli

WriteStatsJSON ==
    /\ cliPc = "stats"
    /\ outDir' = IF cliOpts.statsJson
                 THEN writeStatsJSON(outDir, cliOpts.dryRun) ELSE outDir
    /\ cliPc' = "exit"
    /\ UNCHANGED <<argv, env, cliOpts, workspaceDir>>
    /\ UNCHANGED outsideCli

CliNext ==
    \/ ParseArgs
    \/ GlowficRun
    \/ CheckpointStep
    \/ WriteMarkdown
    \/ WriteNormalizedJSONL
    \/ WriteOAI
    \/ WriteShareGPT
    \/ WriteStatsJSON

CliSpec == CliInit /\ [][CliNext]_vars

\* ---- C22 ----

\* the records of the OAI file this run wrote
OAIWritten ==
    LET written == {f \in outDir \ EarlierOutput :
                       f.name = "conversations_oai.jsonl"}
    IN IF written = {} THEN <<>> ELSE (CHOOSE f \in written : TRUE).data

\* the system message the flag, the variable and the default select, the
\* flag first
Selected ==
    IF argv.system # None THEN argv.system
    ELSE IF env # None THEN env
    ELSE DEFAULT_SYSTEM_MESSAGE

\* C22: every record of the OAI JSONL file a run writes starts with the
\* system message given by --system when the flag is given, otherwise by
\* SPLICE_SYSTEM_MESSAGE when it is set, otherwise the built-in default.
C22_FlagTakesPrecedence ==
    \A i \in 1..Len(OAIWritten) : OAIWritten[i].system = Selected

\* ---- C23 ----

\* C23: a run with --dry-run leaves the output directory and the
\* workspace as they are, whatever formats are requested: no step of it
\* creates or changes a file or a directory.
C23_DryRunWritesNothing ==
    [][argv.dryRun => outDir' = outDir /\ workspaceDir' = workspaceDir]_vars

\* a dry run over all four formats and the statistics has reached its
\* end and the directories are still empty
C23_Witness ==
    /\ cliPc = "exit"
    /\ argv.dryRun
    /\ ~argv.glowfic
    /\ ~argv.jsonStdout
    /\ argv.format.list = AllowedFormats
    /\ argv.statsJson
    /\ outDir = {}
    /\ workspaceDir = {}

(***************************************************************************)
(* The chains groupThreadsAndConversations returns                         *)
(***************************************************************************)

\* every chain filed so far, and every chain of the returned value
ChainsOf(th, cv) ==
    {th[i].items : i \in 1..Len(th)} \cup {cv[i] : i \in 1..Len(cv)}

ReturnedChains ==
    ChainsOf(threads, conversations)
        \cup (IF pc = "done"
              THEN ChainsOf(result.threads, result.conversations)
              ELSE {})

\* items is a parent-pointer path of the index, oldest first, that starts
\* at an item whose parent is absent or not in the index
ParentPath(ix, its) ==
    /\ its # <<>>
    /\ \A i \in 1..(Len(its) - 1) : ix[its[i + 1]].parentId = its[i]
    /\ \/ ix[its[1]].parentId = None
       \/ ix[its[1]].parentId \notin DOMAIN ix

\* C24: the items of every Thread and every Conversation are a
\* parent-pointer path ordered oldest to newest: each item's parentId is
\* the id of the item before it, the first item's parentId is absent or
\* resolves to nothing in the index (also when an earlier chain already
\* used that ancestor), and a Thread's id is the id of its first item.
C24_ChainsAreParentPaths ==
    /\ \A its \in ReturnedChains : ParentPath(all, its)
    /\ \A i \in 1..Len(threads) : threads[i].id = threads[i].items[1]
    /\ pc = "done" =>
          \A i \in 1..Len(result.threads) :
              result.threads[i].id = result.threads[i].items[1]

\* two returned chains of three and two items that run through the same
\* ancestors down to an item whose parent is not in the index, and a
\* Thread
C24_Witness ==
    /\ pc = "done"
    /\ result.threads # <<>>
    /\ \E a, b \in ReturnedChains :
          /\ Len(a) = Cardinality(ItemIds)
          /\ Len(b) = Len(a) - 1
          /\ \A i \in 1..Len(b) : a[i] = b[i]
          /\ all[a[1]].parentId = DanglingId

\* ---- C25 ----

Fetched(ix) == {k \in DOMAIN ix : ix[k].source = "bluesky:fetched"}

\* the items that have k as their parent
Children(ix, k) == {c \in DOMAIN ix : ix[c].parentId = k}

\* C25: no Thread and no Conversation has a fetched-context item as its
\* newest item; a fetched item occurs in a chain only before the item the
\* chain was started from, and a fetched item that is no item's parent
\* occurs in no chain at all.
C25_FetchedOnlyAsAncestor ==
    \A its \in ReturnedChains :
        /\ its[Len(its)] \notin Fetched(all)
        /\ \A i \in 1..Len(its) :
              its[i] \in Fetched(all) =>
                  /\ i < Len(its)
                  /\ Children(all, its[i]) # {}

\* the run is over: one fetched item is the ancestor in a returned chain,
\* another fetched item has no child and is in no chain
C25_Witness ==
    /\ pc = "done"
    /\ \E f, g \in Fetched(all) :
          /\ f # g
          /\ \E its \in ReturnedChains : f \in SeqRange(its)
          /\ Children(all, g) = {}
          /\ \A its \in ReturnedChains : g \notin SeqRange(its)

(***************************************************************************)
(* messagesFromConversation                                                *)
(*                                                                         *)
(* A text is a sequence of words, blanks and mentions; a message's         *)
(* content is such a sequence too, with paragraph breaks between the       *)
(* texts it was merged from.                                               *)
(***************************************************************************)

\* Longest conversation handed to messagesFromConversation
MaxItems == 4

Blank == " "
Mention == "@user.bsky.social"
ParagraphBreak == "\n\n"

Texts ==
    {<<>>, <<Mention, Blank>>, <<"hi">>, <<"hi", Blank, Blank, Mention>>}

\* String.prototype.trim
RECURSIVE Trim(_)
Trim(t) ==
    IF t = <<>> THEN t
    ELSE IF Head(t) \in {Blank, ParagraphBreak} THEN Trim(Tail(t))
    ELSE IF t[Len(t)] \in {Blank, ParagraphBreak}
    THEN Trim(SubSeq(t, 1, Len(t) - 1))
    ELSE t

\* line.replace(/[ \t]+/g, " ")
RECURSIVE CollapseBlanks(_)
CollapseBlanks(t) ==
    IF Len(t) < 2 THEN t
    ELSE IF t[1] = Blank /\ t[2] = Blank THEN CollapseBlanks(Tail(t))
    ELSE <<t[1]>> \o CollapseBlanks(Tail(t))

\* cleanText(text): mentions removed, blanks collapsed, the result trimmed
cleanText(t) ==
    LET NoMention(w) == w # Mention
    IN Trim(CollapseBlanks(SelectSeq(t, NoMention)))

\* the items a conversation is made of: an archive tweet (raw.full_text),
\* a Bluesky post of the archive owner, a fetched context post
ConvItems ==
    [fullText : {TRUE}, source : {"twitter:tweet"}, text : Texts]
        \cup [fullText : {FALSE}, source : {"bluesky:post", "bluesky:fetched"},
              text : Texts]

inferRole(it) ==
    IF it.fullText THEN "assistant"
    ELSE IF it.source = "bluesky:post" THEN "assistant"
    ELSE "user"

ChatMessage(role, content) == [role |-> role, content |-> content]

\* currentContent.join("\n\n")
RECURSIVE JoinParagraphs(_)
JoinParagraphs(parts) ==
    IF parts = <<>> THEN <<>>
    ELSE IF Len(parts) = 1 THEN parts[1]
    ELSE parts[1] \o <<ParagraphBreak>> \o JoinParagraphs(Tail(parts))

\* msgs after flush()
flush(ms, role, parts) ==
    IF role = None THEN ms
    ELSE LET content == Trim(JoinParagraphs(parts))
         IN IF content # <<>> THEN Append(ms, ChatMessage(role, content))
            ELSE ms

\* the list returned untrimmed
ReturnAll(ms) == ms
\* the trailing loop: msgs.slice(0, i + 1) for the last assistant message
TrimToLastAssistant(ms) ==
    LET at == {i \in 1..Len(ms) : ms[i].role = "assistant"}
    IN IF at = {} THEN <<>>
       ELSE SubSeq(ms, 1, CHOOSE i \in at : \A j \in at : j <= i)

MsgInit ==
    /\ convItems \in UNION {[1..n -> ConvItems] : n \in 0..MaxItems}
    /\ msgs = <<>>
    /\ currentRole = None
    /\ currentContent = <<>>
    /\ msgIdx = 1
    /\ msgRet = <<>>
    /\ msgPc = "loop"
    /\ GroupIdle
    /\ FoldIdle
    /\ StoreIdle
    /\ LedgerIdle
    /\ GraphIdle
    /\ CliIdle
    /\ SegIdle
    /\ ConcIdle
    /\ ManyIdle

\* one iteration of for (const it of items) whose text cleans to nothing
SkipEmpty ==
    /\ msgPc = "loop"
    /\ msgIdx <= Len(convItems)
    /\ cleanText(convItems[msgIdx].text) = <<>>
    /\ msgIdx' = msgIdx + 1
    /\ UNCHANGED <<convItems, msgs, currentRole, currentContent, msgRet,
                   msgPc>>
    /\ UNCHANGED outsideMsg

\* one iteration that collects the item: flush on a change of role
Collect ==
    /\ msgPc = "loop"
    /\ msgIdx <= Len(convItems)
    /\ LET role == inferRole(convItems[msgIdx])
           cleaned == cleanText(convItems[msgIdx].text)
           flushes == role # currentRole /\ currentRole # None
       IN /\ cleaned # <<>>
          /\ msgs' = IF flushes
                     THEN flush(msgs, currentRole, currentContent)
                     ELSE msgs
          /\ currentRole' = role
          /\ currentContent' =
                Append(IF flushes THEN <<>> ELSE currentContent, cleaned)
    /\ msgIdx' = msgIdx + 1
    /\ UNCHANGED <<convItems, msgRet, msgPc>>
    /\ UNCHANGED outsideMsg

\* after the loop: the last flush and the trim to the last assistant
ReturnMessages ==
    /\ msgPc = "loop"
    /\ msgIdx > Len(convItems)
    /\ msgs' = flush(msgs, currentRole, currentContent)
    /\ currentContent' = <<>>
    /\ msgRet' = TrimToLastAssistant(msgs')
    /\ msgPc' = "done"
    /\ UNCHANGED <<convItems, currentRole, msgIdx>>
    /\ UNCHANGED outsideMsg

MsgNext ==
    \/ SkipEmpty
    \/ Collect
    \/ ReturnMessages

MsgSpec == MsgInit /\ [][MsgNext]_vars

\* ---- C26 ----

\* the roles of the items that have text left after cleaning
SpeakingRoles ==
    {inferRole(convItems[i]) :
        i \in {j \in 1..Len(convItems) :
                  cleanText(convItems[j].text) # <<>>}}

\* C26: in the list messagesFromConversation returns, adjacent messages
\* have different roles, and the list is empty or ends with an assistant
\* message; it is empty when no item gives an assistant message.
C26_AlternatingEndsWithAssistant ==
    msgPc = "done" =>
        /\ \A i \in 1..(Len(msgRet) - 1) :
              msgRet[i].role # msgRet[i + 1].role
        /\ \/ msgRet = <<>>
           \/ msgRet[Len(msgRet)].role = "assistant"
        /\ "assistant" \notin SpeakingRoles => msgRet = <<>>

\* two consecutive user items were merged into one message, an assistant
\* message follows, and user messages after it were dropped
C26_Witness ==
    /\ msgPc = "done"
    /\ Len(msgRet) = 2
    /\ ParagraphBreak \in SeqRange(msgRet[1].content)
    /\ Len(msgs) > Len(msgRet)

(***************************************************************************)
(* segmentedConversationsFromGlowficThread                                 *)
(***************************************************************************)

\* Longest thread handed to segmentedConversationsFromGlowficThread
MaxPosts == 4

\* a post: what isAssistantPost answers for it, and its content as
\* glowfic-dl's htmlToMarkdown (or, with markdown: false, the post itself)
\* gives it
GlowPosts ==
    [assistant : BOOLEAN,
     content : {<<>>, <<Blank>>, <<"hi", Blank>>, <<"ho">>}]

\* thread.posts.map(...).filter(Boolean): role and trimmed content of the
\* posts that have content
RECURSIVE PostMessages(_)
PostMessages(ps) ==
    IF ps = <<>> THEN <<>>
    ELSE LET role == IF Head(ps).assistant THEN "assistant" ELSE "user"
             c == Trim(Head(ps).content)
         IN (IF c = <<>> THEN <<>> ELSE <<ChatMessage(role, c)>>)
            \o PostMessages(Tail(ps))

\* a segment pushed whatever the two buffers hold
flushAlways(convs, ub, ab) ==
    Append(convs,
           <<ChatMessage("user", Trim(JoinParagraphs(ub))),
             ChatMessage("assistant", Trim(JoinParagraphs(ab)))>>)
\* conversations after flushIfComplete()
flushIfComplete(convs, ub, ab) ==
    IF Len(ub) > 0 /\ Len(ab) > 0
    THEN Append(convs,
                <<ChatMessage("user", Trim(JoinParagraphs(ub))),
                  ChatMessage("assistant", Trim(JoinParagraphs(ab)))>>)
    ELSE convs

\* flushIfComplete() empties the buffers and the flag when it pushes
Flushed(ub, ab) == Len(ub) > 0 /\ Len(ab) > 0

SegInit ==
    /\ posts \in UNION {[1..n -> GlowPosts] : n \in 0..MaxPosts}
    /\ userBuf = <<>>
    /\ asstBuf = <<>>
    /\ seenAnyUser = FALSE
    /\ segConversations = <<>>
    /\ segIdx = 1
    /\ segPc = "loop"
    /\ GroupIdle
    /\ FoldIdle
    /\ StoreIdle
    /\ LedgerIdle
    /\ GraphIdle
    /\ CliIdle
    /\ MsgIdle
    /\ ConcIdle
    /\ ManyIdle

\* one iteration of for (const m of msgs) for a user message
UserPost ==
    /\ segPc = "loop"
    /\ segIdx <= Len(PostMessages(posts))
    /\ LET m == PostMessages(posts)[segIdx]
           closes == Len(asstBuf) > 0 /\ Flushed(userBuf, asstBuf)
       IN /\ m.role = "user"
          /\ segConversations' =
                IF Len(asstBuf) > 0
                THEN flushIfComplete(segConversations, userBuf, asstBuf)
                ELSE segConversations
          /\ userBuf' = Append(IF closes THEN <<>> ELSE userBuf, m.content)
          /\ asstBuf' = IF closes THEN <<>> ELSE asstBuf
          /\ seenAnyUser' = TRUE
    /\ segIdx' = segIdx + 1
    /\ UNCHANGED <<posts, segPc>>
    /\ UNCHANGED outsideSeg

\* an assistant message before any user message of the segment: continue
IgnoreAssistant ==
    /\ segPc = "loop"
    /\ segIdx <= Len(PostMessages(posts))
    /\ PostMessages(posts)[segIdx].role = "assistant"
    /\ ~seenAnyUser
    /\ segIdx' = segIdx + 1
    /\ UNCHANGED <<posts, userBuf, asstBuf, seenAnyUser, segConversations,
                   segPc>>
    /\ UNCHANGED outsideSeg

\* an assistant message of the open segment
AssistantPost ==
    /\ segPc = "loop"
    /\ segIdx <= Len(PostMessages(posts))
    /\ PostMessages(posts)[segIdx].role = "assistant"
    /\ seenAnyUser
    /\ asstBuf' = Append(asstBuf, PostMessages(posts)[segIdx].content)
    /\ segIdx' = segIdx + 1
    /\ UNCHANGED <<posts, userBuf, seenAnyUser, segConversations, segPc>>
    /\ UNCHANGED outsideSeg

\* after the loop: the last flushIfComplete(), return conversations
ReturnSegments ==
    /\ segPc = "loop"
    /\ segIdx > Len(PostMessages(posts))
    /\ segConversations' =
          flushIfComplete(segConversations, userBuf, asstBuf)
    /\ userBuf' = IF Flushed(userBuf, asstBuf) THEN <<>> ELSE userBuf
    /\ asstBuf' = IF Flushed(userBuf, asstBuf) THEN <<>> ELSE asstBuf
    /\ seenAnyUser' = IF Flushed(userBuf, asstBuf) THEN FALSE
                      ELSE seenAnyUser
    /\ segPc' = "done"
    /\ UNCHANGED <<posts, segIdx>>
    /\ UNCHANGED outsideSeg

SegNext ==
    \/ UserPost
    \/ IgnoreAssistant
    \/ AssistantPost
    \/ ReturnSegments

SegSpec == SegInit /\ [][SegNext]_vars

\* ---- C27 ----

\* the last position of the run of one role that starts at position i
RECURSIVE RunEnd(_, _)
RunEnd(ms, i) ==
    IF i < Len(ms) /\ ms[i + 1].role = ms[i].role THEN RunEnd(ms, i + 1)
    ELSE i

\* the positions where a run of user messages starts that an assistant
\* message follows
SegmentStarts(ms) ==
    {i \in 1..Len(ms) :
        /\ ms[i].role = "user"
        /\ (i = 1 \/ ms[i - 1].role = "assistant")
        /\ RunEnd(ms, i) < Len(ms)}

ContentsOf(ms, from, to) ==
    [k \in 1..(to - from + 1) |-> ms[from + k - 1].content]

\* the user run at i and the assistant run after it, each merged
SegmentAt(ms, i) ==
    LET u == RunEnd(ms, i)
        a == RunEnd(ms, u + 1)
    IN <<ChatMessage("user", JoinParagraphs(ContentsOf(ms, i, u))),
         ChatMessage("assistant",
                     JoinParagraphs(ContentsOf(ms, u + 1, a)))>>

\* C27: every segment returned has exactly two messages, a user message
\* followed by an assistant message, both with content; the segments are,
\* in order, the runs of user posts that an assistant post follows, each
\* with the run of assistant posts after it: assistant posts before the
\* first user post of a segment and a trailing run of user posts give
\* nothing.
C27_SegmentsAreUserAssistantPairs ==
    /\ \A i \in 1..Len(segConversations) :
          /\ Len(segConversations[i]) = 2
          /\ segConversations[i][1].role = "user"
          /\ segConversations[i][2].role = "assistant"
          /\ segConversations[i][1].content # <<>>
          /\ segConversations[i][2].content # <<>>
    /\ segPc = "done" =>
          LET ms == PostMessages(posts)
          IN /\ Len(segConversations) = Cardinality(SegmentStarts(ms))
             /\ \A i \in 1..Len(segConversations) :
                   \E s \in SegmentStarts(ms) :
                       /\ Cardinality({r \in SegmentStarts(ms) : r <= s}) = i
                       /\ segConversations[i] = SegmentAt(ms, s)

\* a leading assistant post was ignored, a segment was closed by the user
\* post after it, and the trailing user post gave no segment
C27_Witness ==
    /\ segPc = "done"
    /\ Len(PostMessages(posts)) = MaxPosts
    /\ PostMessages(posts)[1].role = "assistant"
    /\ PostMessages(posts)[Len(posts)].role = "user"
    /\ Len(segConversations) = 1
    /\ userBuf # <<>>

(***************************************************************************)
(* putJSONL, two calls in flight in one process                            *)
(*                                                                         *)
(* Each await of putJSONL is a point where the other call may run: the     *)
(* open of the temp file, every fh.write, the close, the stat of the       *)
(* final path, and the rm or rename that follows it.  Both calls start in  *)
(* the same millisecond; Math.random() gives the two temp names different  *)
(* suffixes.                                                               *)
(***************************************************************************)

Callers == {"first", "second"}

\* Math.random().toString(16).slice(2) of the two calls
CallRandoms == {"r1", "r2"}

\* the locals of a call before its first await
NotStarted(list) ==
    [pc |-> "open", list |-> list, k |-> 1, tmp |-> "", text |-> <<>>,
     exists |-> FALSE, ret |-> <<>>]

\* the temp names in use by the calls in flight
OpenTemps == {procs[c].tmp : c \in Callers} \ {""}

ConcInit ==
    /\ procs \in [Callers -> {NotStarted(list) : list \in ItemLists}]
    /\ objects = {}
    /\ fsLog = <<>>
    /\ clock = 0
    /\ storePc = "idle"
    /\ call = NoCall
    /\ calls = <<>>
    /\ gen = NoGen
    /\ loops = <<>>
    /\ GroupIdle
    /\ FoldIdle
    /\ LedgerIdle
    /\ GraphIdle
    /\ CliIdle
    /\ MsgIdle
    /\ SegIdle
    /\ ManyIdle

\* fh = await fsp.open(tmpPath, "w")
OpenTemp(c) ==
    /\ procs[c].pc = "open"
    /\ \E rnd \in CallRandoms :
          LET tmpName == ".tmp-" \o ToString(clock) \o "-" \o rnd
          IN /\ tmpName \notin OpenTemps
             /\ objects' = WriteFile(objects, tmpName, <<>>)
             /\ fsLog' = Append(fsLog, FsOp("open", tmpName, ""))
             /\ procs' = [procs EXCEPT ![c].tmp = tmpName,
                                       ![c].pc = "write"]
    /\ UNCHANGED <<clock, storePc, call, calls, gen, loops>>
    /\ UNCHANGED outsideConc

\* await fh.write(line); hashUpdate(h, line)
WriteLine(c) ==
    /\ procs[c].pc = "write"
    /\ procs[c].k <= Len(procs[c].list)
    /\ LET line == JSONstringify(procs[c].list[procs[c].k]) \o <<NL>>
       IN /\ objects' = WriteFile(objects, procs[c].tmp,
                            ReadFile(objects, procs[c].tmp) \o line)
          /\ procs' = [procs EXCEPT ![c].k = @ + 1, ![c].text = @ \o line]
    /\ UNCHANGED <<fsLog, clock, storePc, call, calls, gen, loops>>
    /\ UNCHANGED outsideConc

\* the loop is over: await fh.close()
CloseTemp(c) ==
    /\ procs[c].pc = "write"
    /\ procs[c].k > Len(procs[c].list)
    /\ procs' = [procs EXCEPT ![c].pc = "stat"]
    /\ UNCHANGED <<objects, fsLog, clock, storePc, call, calls, gen, loops>>
    /\ UNCHANGED outsideConc

\* await fsp.stat(finalPath)
StatFinal(c) ==
    /\ procs[c].pc = "stat"
    /\ procs' = [procs EXCEPT
          ![c].exists =
              Stat(objects, objectPath("jsonl", hashString(procs[c].text))),
          ![c].pc = "place"]
    /\ UNCHANGED <<objects, fsLog, clock, storePc, call, calls, gen, loops>>
    /\ UNCHANGED outsideConc

\* the blob was there: await fsp.rm(tmpPath).catch(() => {}); return ref
RemoveTemp(c) ==
    /\ procs[c].pc = "place"
    /\ procs[c].exists
    /\ objects' = Remove(objects, procs[c].tmp)
    /\ fsLog' = Append(fsLog, FsOp("rm", procs[c].tmp, ""))
    /\ procs' = [procs EXCEPT
          ![c].ret = makeRef("jsonl", hashString(procs[c].text)),
          ![c].pc = "returned"]
    /\ UNCHANGED <<clock, storePc, call, calls, gen, loops>>
    /\ UNCHANGED outsideConc

\* the stat failed: await fsp.rename(tmpPath, finalPath); return ref
RenameTemp(c) ==
    /\ procs[c].pc = "place"
    /\ ~procs[c].exists
    /\ LET finalPath == objectPath("jsonl", hashString(procs[c].text))
       IN /\ objects' = Rename(objects, procs[c].tmp, finalPath)
          /\ fsLog' = Append(fsLog, FsOp("rename", procs[c].tmp, finalPath))
    /\ procs' = [procs EXCEPT
          ![c].ret = makeRef("jsonl", hashString(procs[c].text)),
          ![c].pc = "returned"]
    /\ UNCHANGED <<clock, storePc, call, calls, gen, loops>>
    /\ UNCHANGED outsideConc

ConcNext ==
    \/ \E c \in Callers : OpenTemp(c)
    \/ \E c \in Callers : WriteLine(c)
    \/ \E c \in Callers : CloseTemp(c)
    \/ \E c \in Callers : StatFinal(c)
    \/ \E c \in Callers : RemoveTemp(c)
    \/ \E c \in Callers : RenameTemp(c)

ConcSpec == ConcInit /\ [][ConcNext]_vars

\* ---- C28 ----

\* the two calls were given the same items
SameContent == procs["first"].list = procs["second"].list

\* the files of the objects directory under a hash name
HashNamed == {f \in objects : f.name \notin OpenTemps}

\* C28: two putJSONL calls with the same content, interleaved in any
\* order: the hash-named path never holds anything but the complete text
\* of that hash; when both have returned they have returned the same
\* reference, and the objects directory holds the one blob of that hash
\* and no temp file.
C28_ConcurrentPutJSONL ==
    SameContent =>
        LET text == JsonlText(procs["first"].list)
            finalPath == objectPath("jsonl", hashString(text))
        IN /\ \A f \in HashNamed : f = File(finalPath, text)
           /\ (\A c \in Callers : procs[c].pc = "returned") =>
                 /\ procs["first"].ret = procs["second"].ret
                 /\ procs["first"].ret = makeRef("jsonl", hashString(text))
                 /\ objects = {File(finalPath, text)}

\* both calls found no blob and both renamed their temp file into place
C28_Witness ==
    /\ SameContent
    /\ procs["first"].list # <<>>
    /\ \A c \in Callers : procs[c].pc = "returned" /\ ~procs[c].exists
    /\ Len(SelectSeq(fsLog, LAMBDA o : o.op = "rename")) = Cardinality(Callers)

(***************************************************************************)
(* putJSONL that fails partway                                             *)
(***************************************************************************)

\* the step is the one in which a putJSONL call threw
PutJSONLThrew ==
    /\ Len(calls') = Len(calls) + 1
    /\ calls'[Len(calls')].op = "putJSONL"
    /\ calls'[Len(calls')].outcome = "threw"

\* C29: when putJSONL fails partway the error reaches the caller and the
\* objects directory is as it was before the call: no hash-named blob has
\* been added or changed, and the temp file the call created is gone.
C29_FailedPutJSONLLeavesNothing ==
    [][PutJSONLThrew =>
          /\ Blobs' = Blobs
          /\ ~Stat(objects', calls'[Len(calls')].tmp)]_vars

(***************************************************************************)
(* fetchGlowficThreadsMany                                                 *)
(*                                                                         *)
(* A worker runs without interruption from one await to the next: it       *)
(* takes an index and calls fetchGlowficThreads in one step, and the step  *)
(* in which its fetch settles is also the step in which it takes the next  *)
(* index or ends.                                                          *)
(***************************************************************************)

\* Longest list of URLs
MaxUrls == 3

UrlLists == {[i \in 1..n |-> "url " \o ToString(i)] : n \in 0..MaxUrls}

\* options.concurrency: absent, or a number
ConcurrencyOptions ==
    {[given |-> FALSE, n |-> 0]}
        \cup {[given |-> TRUE, n |-> k] : k \in {-1, 0, 1, 2, 20}}

Min(a, b) == IF a < b THEN a ELSE b
Max(a, b) == IF a > b THEN a ELSE b

\* the number of workers without the lower limit of one
concUnlimited(o) == Min(IF o.given THEN o.n ELSE 4, 16)
\* const conc = Math.max(1, Math.min(options?.concurrency ?? 4, 16))
conc(o) == Max(1, Min(IF o.given THEN o.n ELSE 4, 16))

\* the thread fetchGlowficThreads resolves to for a URL
ThreadOf(u) == "thread of " \o u

\* for (let k = 0; k < conc; k++) pending.push(worker()): worker k runs up
\* to its first await, having taken the next index if one is left
RECURSIVE StartWorkers(_, _, _)
StartWorkers(n, k, len) ==
    IF k > n THEN <<>>
    ELSE <<IF k <= len THEN k ELSE 0>> \o StartWorkers(n, k + 1, len)

ManyInit ==
    /\ urls \in UrlLists
    /\ concurrency \in ConcurrencyOptions
    /\ nextUrl = 0
    /\ workers = <<>>
    /\ attempted = <<>>
    /\ fetched = <<>>
    /\ warned = <<>>
    /\ manyPc = "start"
    /\ GroupIdle
    /\ FoldIdle
    /\ StoreIdle
    /\ LedgerIdle
    /\ GraphIdle
    /\ CliIdle
    /\ MsgIdle
    /\ SegIdle
    /\ ConcIdle

\* the call up to await Promise.all(pending)
StartAll ==
    /\ manyPc = "start"
    /\ workers' = StartWorkers(conc(concurrency), 1, Len(urls))
    /\ nextUrl' = Min(conc(concurrency), Len(urls))
    /\ attempted' = [k \in 1..Min(conc(concurrency), Len(urls)) |-> k]
    /\ manyPc' = "running"
    /\ UNCHANGED <<urls, concurrency, fetched, warned>>
    /\ UNCHANGED outsideMany

\* the worker's while loop after its fetch has settled
TakeNext(w) ==
    /\ workers' = [workers EXCEPT
          ![w] = IF nextUrl < Len(urls) THEN nextUrl + 1 ELSE 0]
    /\ nextUrl' = IF nextUrl < Len(urls) THEN nextUrl + 1 ELSE nextUrl
    /\ attempted' = IF nextUrl < Len(urls)
                    THEN Append(attempted, nextUrl + 1) ELSE attempted

\* a fetch resolves: out.push(...ts)
FetchResolves ==
    /\ manyPc = "running"
    /\ \E w \in 1..Len(workers) :
          /\ workers[w] # 0
          /\ fetched' = Append(fetched, ThreadOf(urls[workers[w]]))
          /\ TakeNext(w)
    /\ UNCHANGED <<urls, concurrency, warned, manyPc>>
    /\ UNCHANGED outsideMany

\* a fetch rejects: the catch logs the URL
FetchRejects ==
    /\ manyPc = "running"
    /\ \E w \in 1..Len(workers) :
          /\ workers[w] # 0
          /\ warned' = Append(warned, urls[workers[w]])
          /\ TakeNext(w)
    /\ UNCHANGED <<urls, concurrency, fetched, manyPc>>
    /\ UNCHANGED outsideMany

\* Promise.all(pending) resolves once every worker is over: return out
ReturnFetched ==
    /\ manyPc = "running"
    /\ \A w \in 1..Len(workers) : workers[w] = 0
    /\ manyPc' = "returned"
    /\ UNCHANGED <<urls, concurrency, nextUrl, workers, attempted, fetched,
                   warned>>
    /\ UNCHANGED outsideMany

ManyNext ==
    \/ StartAll
    \/ FetchResolves
    \/ FetchRejects
    \/ ReturnFetched

ManySpec == ManyInit /\ [][ManyNext]_vars

\* ---- C30 ----

\* the fetches in flight
InFlight == {w \in 1..Len(workers) : workers[w] # 0}

\* min(max(concurrency, 1), 16), the default being four
Limit ==
    LET c == IF concurrency.given THEN concurrency.n ELSE 4
    IN IF c < 1 THEN 1 ELSE IF c > 16 THEN 16 ELSE c

\* C30: in every interleaving of the workers no URL is attempted twice
\* and at most min(max(concurrency, 1), 16) fetches are in flight; the
\* function returns only when every URL has been attempted once and has
\* succeeded or failed, with the threads of exactly the URLs that
\* succeeded, the failed ones having been logged.
C30_EachUrlOnceBoundedInFlight ==
    /\ NoRepeat(attempted)
    /\ Cardinality(InFlight) <= Limit
    /\ manyPc = "returned" =>
          /\ SeqRange(attempted) = 1..Len(urls)
          /\ InFlight = {}
          /\ NoRepeat(fetched) /\ NoRepeat(warned)
          /\ \A i \in 1..Len(urls) :
                (ThreadOf(urls[i]) \in SeqRange(fetched))
                    # (urls[i] \in SeqRange(warned))
          /\ Len(fetched) + Len(warned) = Len(urls)

\* two workers over three URLs: the second URL failed, the call returned
\* the threads of the other two, the third before the first
C30_Witness ==
    /\ manyPc = "returned"
    /\ Len(urls) = MaxUrls
    /\ Len(workers) = Len(urls) - 1
    /\ warned = <<urls[2]>>
    /\ fetched = <<ThreadOf(urls[Len(urls)]), ThreadOf(urls[1])>>

====
